---- MODULE Spec2Model ----
(***************************************************************************)
(* Model of the fireworks engine of hinolugi-support.js: Vector, Particle,  *)
(* Firework, FireworkBox and the animation driver (function step).          *)
(*                                                                          *)
(* Numbers.  JavaScript numbers are modelled in fixed point: a length, a    *)
(* velocity or a factor v is the integer v * Milli.  Angles are integers    *)
(* in units of pi / PI, so that every angle the code builds (pi/180,        *)
(* pi/arms, n/d * a) is exact.  Hue, lifespan and decay are plain integers. *)
(* NaN is one reserved integer that every operation propagates and every    *)
(* comparison rejects, as IEEE-754 does.                                    *)
(***************************************************************************)
EXTENDS Integers, Sequences, FiniteSets, TLC

Milli == 10 * 100
NaN   == -(2^30)
Null  == [null |-> TRUE]

NAdd(a, b) == IF a = NaN \/ b = NaN THEN NaN ELSE a + b
NSub(a, b) == IF a = NaN \/ b = NaN THEN NaN ELSE a - b
NNeg(a)    == IF a = NaN THEN NaN ELSE 0 - a
\* product of two fixed-point numbers
NMul(a, b) == IF a = NaN \/ b = NaN THEN NaN ELSE (a * b) \div Milli
\* quotient of two fixed-point numbers; the only division by zero the engine
\* can make is 0/0, which is NaN
NDiv(a, b) == IF a = NaN \/ b = NaN \/ b = 0 THEN NaN ELSE (a * Milli) \div b
NGe(a, b)  == a # NaN /\ b # NaN /\ a >= b
NGt(a, b)  == a # NaN /\ b # NaN /\ a > b
NLt(a, b)  == a # NaN /\ b # NaN /\ a < b

RECURSIVE SqrtIter(_, _, _)
SqrtIter(n, lo, hi) ==
  IF lo >= hi THEN lo
  ELSE LET mid == (lo + hi + 1) \div 2
       IN  IF mid * mid <= n THEN SqrtIter(n, mid, hi) ELSE SqrtIter(n, lo, mid - 1)

\* Math.sqrt of a fixed-point number: NaN for a negative argument
MathSqrt(v) == IF v = NaN \/ v < 0 THEN NaN ELSE SqrtIter(v * Milli, 0, 46340)
\* Math.floor of a fixed-point number
MathFloor(v) == IF v = NaN THEN NaN ELSE (v \div Milli) * Milli

\* Math.PI in angle units: 180 * 7 * 8 * 9 units make half a turn
PI == 180 * 504

\* cosine of an angle x4 in [0, pi/2], x4 in 1e-4 rad; result in 1e-4
CosSeries(x4) ==
  LET x2 == (x4 * x4) \div 10000
      t1 == x2 \div 2
      t2 == (t1 * x2) \div 120000
      t3 == (t2 * x2) \div 300000
      t4 == (t3 * x2) \div 560000
      t5 == (t4 * x2) \div 900000
  IN  10000 - t1 + t2 - t3 + t4 - t5

CosQuadrant(q) == (CosSeries((q * 31416) \div PI) + 5) \div 10

\* Math.cos, Math.sin of an angle in angle units; result fixed point
MathCos(a) ==
  IF a = NaN THEN NaN
  ELSE LET m == a % (2 * PI)
       IN  IF m * 2 <= PI THEN CosQuadrant(m)
           ELSE IF m <= PI THEN 0 - CosQuadrant(PI - m)
           ELSE IF m * 2 <= 3 * PI THEN 0 - CosQuadrant(m - PI)
           ELSE CosQuadrant(2 * PI - m)

MathSin(a) == IF a = NaN THEN NaN ELSE MathCos(a - PI \div 2)

\* the largest angle of [lo, hi], a part of the first quadrant, at which the
\* direction (x, y), x >= 0 and y >= 0, is not yet passed
RECURSIVE AtanIter(_, _, _, _)
AtanIter(x, y, lo, hi) ==
  IF lo >= hi THEN lo
  ELSE LET mid == (lo + hi + 1) \div 2
       IN  IF y * MathCos(mid) - x * MathSin(mid) >= 0 THEN AtanIter(x, y, mid, hi)
           ELSE AtanIter(x, y, lo, mid - 1)

\* Math.atan2(y, x) in angle units, in (-PI, PI]
MathAtan2(y, x) ==
  IF x = NaN \/ y = NaN THEN NaN
  ELSE IF x = 0 /\ y = 0 THEN 0
  ELSE LET ax == IF x < 0 THEN 0 - x ELSE x
           ay == IF y < 0 THEN 0 - y ELSE y
           q  == IF ay = 0 THEN 0
                 ELSE IF ax = 0 THEN PI \div 2
                 ELSE AtanIter(ax, ay, 0, PI \div 2)
       IN  IF x >= 0 /\ y >= 0 THEN q
           ELSE IF x < 0 /\ y >= 0 THEN PI - q
           ELSE IF x < 0 THEN q - PI
           ELSE 0 - q

(***************************************************************************)
(* Math.random.  The generator is a value of 1..256 that each call         *)
(* advances; the number returned is a fraction of [0, 1).                   *)
(***************************************************************************)
RandomNext(s) == (s * 3) % 257
\* Math.random() is a fraction RandomNum / RandomDen of [0, 1): the states
\* 1..255 give the multiples of 1/256 from 0, the state 256 a value next to 1
RandomNum(s) == IF s = 256 THEN 4095 ELSE s - 1
RandomDen(s) == IF s = 256 THEN 4096 ELSE 256
RandomUnit(s) == (RandomNum(s) * Milli) \div RandomDen(s)

RECURSIVE PowMod(_, _, _)
PowMod(b, n, m) ==
  IF n = 0 THEN 1
  ELSE LET h == PowMod(b, n \div 2, m)
       IN  IF n % 2 = 0 THEN (h * h) % m ELSE (((h * h) % m) * b) % m

\* the generator after n calls of Math.random
RandomSkip(s, n) == (s * PowMod(3, n, 257)) % 257

(***************************************************************************)
(* vector.js                                                                *)
(***************************************************************************)
Vector(x, y) == [x |-> x, y |-> y]

vectorFromPolar(angle, m) == Vector(NMul(m, MathCos(angle)), NMul(m, MathSin(angle)))

vectorFromCartesian(x, y) == Vector(x, y)

clone(v) == Vector(v.x, v.y)

plus(v, other) == Vector(NAdd(v.x, other.x), NAdd(v.y, other.y))

minus(v, other) == Vector(NSub(v.x, other.x), NSub(v.y, other.y))

multiply(v, factor) == Vector(NMul(v.x, factor), NMul(v.y, factor))

divide(v, divisor) == Vector(NDiv(v.x, divisor), NDiv(v.y, divisor))

magnitude(v) ==
  IF v.x = NaN \/ v.y = NaN THEN NaN
  ELSE SqrtIter(v.x * v.x + v.y * v.y, 0, 46340)

normalized(v) ==
  LET m == magnitude(v)
  IN  IF m # 0 THEN divide(v, m) ELSE v

\* get angle()
getAngle(v) == MathAtan2(v.y, v.x)

withMagnitude(v, m) == vectorFromPolar(getAngle(v), m)

withAngle(v, a) == vectorFromPolar(a, magnitude(v))

\* "other && (this.x === other.x) && (this.y === other.y)": other, a Vector
\* or null, is returned when it is null; NaN is not === NaN
equal(v, other) ==
  IF other = Null THEN Null
  ELSE /\ v.x # NaN /\ other.x # NaN /\ v.x = other.x
       /\ v.y # NaN /\ other.y # NaN /\ v.y = other.y

(***************************************************************************)
(* vector.js called with any JavaScript value.  A value carries its type;   *)
(* a call returns what it threw ("none" when it returned) and its value.    *)
(***************************************************************************)
JsVector(v) == [type |-> "Vector", x |-> v.x, y |-> v.y]
JsObject(x, y) == [type |-> "object", x |-> x, y |-> y]
JsNumber(n) == [type |-> "number", n |-> n]
JsString(s) == [type |-> "string", s |-> s]
JsNull == [type |-> "null"]
JsUndefined == [type |-> "undefined"]

\* vector instanceof Vector
IsVector(value) == value.type = "Vector"

\* reading a property of null or undefined throws a TypeError
ReadThrows(value) == value.type \in {"null", "undefined"}

\* value.x or value.y as an operand of + and -: a number or a string has no
\* such property, and undefined in arithmetic is NaN
Read(value, prop) == IF value.type \in {"Vector", "object"} THEN value[prop] ELSE NaN

Returned(value) == [thrown |-> "none", value |-> value]
Thrown(error) == [thrown |-> error, value |-> Null]

checkVector(vector) == IF ~IsVector(vector) THEN Thrown("Error") ELSE Returned(Null)

dot(v, other) ==
  IF checkVector(other).thrown # "none" THEN checkVector(other)
  ELSE Returned(NAdd(NMul(v.x, other.x), NMul(v.y, other.y)))

\* plus and minus with an argument of any type
plusCall(v, other) ==
  IF ReadThrows(other) THEN Thrown("TypeError")
  ELSE Returned(plus(v, Vector(Read(other, "x"), Read(other, "y"))))

minusCall(v, other) ==
  IF ReadThrows(other) THEN Thrown("TypeError")
  ELSE Returned(minus(v, Vector(Read(other, "x"), Read(other, "y"))))

normalizedCall(v) == Returned(normalized(v))

(***************************************************************************)
(* utils: random, randomElement, distance.  An operation that draws random  *)
(* numbers returns its value together with the generator it leaves.         *)
(***************************************************************************)
\* mutant of random: rounded up
randomRoundedUp(min, max, s) ==
  [v   |-> 0 - ((0 - ((RandomNum(s) * (max + Milli - min)) \div RandomDen(s) + min)) \div Milli),
   rnd |-> RandomNext(s)]

\* Math.floor((Math.random() * (max + 1 - min)) + min), an integer
random(min, max, s) ==
  [v   |-> ((RandomNum(s) * (max + Milli - min)) \div RandomDen(s) + min) \div Milli,
   rnd |-> RandomNext(s)]

randomElement(array, s) ==
  IF Len(array) = 0 THEN [v |-> Null, rnd |-> s]
  ELSE LET idx == random(0, (Len(array) - 1) * Milli, s)
       IN  [v |-> array[idx.v + 1], rnd |-> idx.rnd]

distance(point1, point2) ==
  LET p1 == NSub(point2.x, point1.x)
      p2 == NSub(point2.y, point1.y)
  IN  IF p1 = NaN \/ p2 = NaN THEN NaN
      ELSE SqrtIter(p1 * p1 + p2 * p2, 0, 46340)

(***************************************************************************)
(* Constants of the fireworks module                                        *)
(***************************************************************************)
FRAMES_PER_SECOND == 60
MAX_CONCURRENT_FIREWORKS == 15
MAX_PARTICLE_TRAIL == 10
GRAVITY == Vector(0, 70)

(***************************************************************************)
(* class Particle                                                           *)
(***************************************************************************)
ParticleLifespan == 100

ParticleNew(loc, vel, hue, decay) ==
  [acc |-> Vector(0, 0), vel |-> vel, pos |-> loc, lifespan |-> ParticleLifespan,
   decay |-> decay, hue |-> hue, trails |-> <<clone(loc)>>]

\* mutant of ParticleDead: dead only below 0
ParticleDeadBelowZero(p) == p.lifespan < 0

ParticleDead(p) == p.lifespan <= 0

\* mutant of ParticleApplyForce: the force replaces the acceleration
ParticleSetForce(p, f) == [p EXCEPT !.acc = f]

ParticleApplyForce(p, f) == [p EXCEPT !.acc = plus(p.acc, f)]

\* mutant of ParticleStep: the trail is never shortened
ParticleStepUntrimmed(p) ==
  [p EXCEPT !.trails = <<Vector(p.pos.x, p.pos.y)>> \o p.trails,
            !.vel = plus(p.vel, p.acc),
            !.pos = plus(p.pos, plus(p.vel, p.acc)),
            !.lifespan = p.lifespan - p.decay,
            !.acc = multiply(p.acc, 0)]

\* mutant of ParticleStep: the trail takes the position after the update
ParticleStepTrailAfter(p) ==
  [p EXCEPT !.trails = SubSeq(<<plus(p.pos, plus(p.vel, p.acc))>> \o p.trails, 1,
                              IF Len(p.trails) + 1 > MAX_PARTICLE_TRAIL
                              THEN MAX_PARTICLE_TRAIL ELSE Len(p.trails) + 1),
            !.vel = plus(p.vel, p.acc),
            !.pos = plus(p.pos, plus(p.vel, p.acc)),
            !.lifespan = p.lifespan - p.decay,
            !.acc = multiply(p.acc, 0)]

ParticleStep(p) ==
  LET unshifted == <<Vector(p.pos.x, p.pos.y)>> \o p.trails
      trails == IF Len(unshifted) > MAX_PARTICLE_TRAIL
                THEN SubSeq(unshifted, 1, MAX_PARTICLE_TRAIL) ELSE unshifted
      vel == plus(p.vel, p.acc)
  IN  [p EXCEPT !.trails = trails,
                !.vel = vel,
                !.pos = plus(p.pos, vel),
                !.lifespan = p.lifespan - p.decay,
                !.acc = multiply(p.acc, 0)]

(***************************************************************************)
(* The DOM the engine reads: SVG path elements.  A path element is a        *)
(* polyline of axis-parallel segments given by its vertices (user units),   *)
(* which makes getTotalLength and getPointAtLength exact.                   *)
(***************************************************************************)
Abs(n) == IF n < 0 THEN 0 - n ELSE n

SvgPath(pts) == [pts |-> pts]

\* the elements of the document that have an id
DocumentPaths ==
  [path1  |-> SvgPath(<<Vector(-10, -10), Vector(10, -10), Vector(10, 10),
                        Vector(-10, 10), Vector(-10, -10)>>),
   banner |-> [tag |-> "div"]]

\* an element that has the methods getTotalLength and getPointAtLength
IsGeometryElement(el) == "pts" \in DOMAIN el

\* an id that is null is looked up as the string "null"
getElementById(id) ==
  IF id \in DOMAIN DocumentPaths THEN DocumentPaths[id] ELSE Null

\* document.createElementNS(svg, "path") with attribute d: the outline that
\* stands for the built-in path constant of the shape
createSvgPath(shape) ==
  CASE shape \in {"umbrellas", "umbrella"} ->
         SvgPath(<<Vector(0, -9), Vector(0, -7), Vector(-8, -7), Vector(-8, -1),
                   Vector(8, -1), Vector(8, -7), Vector(0, -7), Vector(0, 9)>>)
    [] shape \in {"star", "stars"} ->
         SvgPath(<<Vector(9, -6), Vector(5, -6), Vector(5, 0), Vector(9, 0),
                   Vector(9, 6), Vector(-9, 6), Vector(-9, -6), Vector(9, -6)>>)
    [] shape \in {"skulls", "skull"} ->
         SvgPath(<<Vector(-4, -5), Vector(4, -5), Vector(4, 6), Vector(-4, 6),
                   Vector(-4, -5)>>)
    [] shape \in {"rabbits", "rabbit"} ->
         SvgPath(<<Vector(-1, 6), Vector(-1, -8), Vector(7, -8), Vector(7, 6),
                   Vector(-1, 6)>>)
    [] OTHER ->
         SvgPath(<<Vector(-3, 2), Vector(9, 2), Vector(9, -7), Vector(-3, -7),
                   Vector(-3, 2)>>)

SegmentLength(a, b) == (Abs(b.x - a.x) + Abs(b.y - a.y)) * Milli

RECURSIVE PathLengthFrom(_, _)
PathLengthFrom(pts, i) ==
  IF i >= Len(pts) THEN 0
  ELSE SegmentLength(pts[i], pts[i + 1]) + PathLengthFrom(pts, i + 1)

getTotalLength(el) == PathLengthFrom(el.pts, 1)

RECURSIVE PointFrom(_, _, _)
PointFrom(pts, i, len) ==
  IF i >= Len(pts) THEN Vector(pts[Len(pts)].x * Milli, pts[Len(pts)].y * Milli)
  ELSE LET seg == SegmentLength(pts[i], pts[i + 1])
       IN  IF len <= seg /\ seg > 0
           THEN Vector(pts[i].x * Milli + ((pts[i + 1].x - pts[i].x) * Milli * len) \div seg,
                       pts[i].y * Milli + ((pts[i + 1].y - pts[i].y) * Milli * len) \div seg)
           ELSE PointFrom(pts, i + 1, len - seg)

getPointAtLength(el, len) == PointFrom(el.pts, 1, len)

(***************************************************************************)
(* class Firework                                                           *)
(***************************************************************************)
FireworkLifespan == 200
DefaultDecay == 1
PartCount == 180
TargetReach == 10

FireworkNew(origin, initialVelocity, shape, hue, target, svgPathId) ==
  [particles |-> <<ParticleNew(origin, initialVelocity, hue, 0)>>,
   exploded |-> FALSE,
   initialVelocity |-> normalized(initialVelocity),
   origin |-> origin,
   target |-> target,
   shape |-> shape,
   hue |-> hue,
   lifespan |-> FireworkLifespan,
   svgPathId |-> svgPathId]

\* mutant of FireworkDead: dead as soon as the fragments are gone
FireworkDeadWhenEmpty(f) == f.exploded /\ Len(f.particles) = 0

FireworkDead(f) == f.lifespan <= 0 /\ Len(f.particles) = 0

FireworkApplyForce(f, dir) ==
  [f EXCEPT !.particles = [i \in 1..Len(f.particles) |-> ParticleApplyForce(f.particles[i], dir)]]

\* mutant of Splice: splice(i, 0), which removes nothing
SpliceNothing(seq, i) == seq

\* array.splice(i, 1), i counted from 1
Splice(seq, i) == SubSeq(seq, 1, i - 1) \o SubSeq(seq, i + 1, Len(seq))

explodeAsNormal(f, origin, s) ==
  LET angleIncr == (PI * 2) \div PartCount
  IN  [particles |->
         [j \in 1..PartCount |->
            LET a  == (j - 1) * angleIncr
                aa == RandomUnit(RandomSkip(s, j - 1))
                m  == 100 + NMul(1500, aa)
                v  == plus(vectorFromPolar(a, m), f.initialVelocity)
            IN  ParticleNew(origin, v, f.hue, DefaultDecay)],
       rnd |-> RandomSkip(s, PartCount),
       gen |-> "normal"]

explodeAsHeart(f, origin, s) ==
  LET angleIncr == (PI * 2) \div PartCount
  IN  [particles |->
         [j \in 1..PartCount |->
            LET a   == (j - 1) * angleIncr
                sn  == MathSin(a)
                x   == 16 * NMul(NMul(sn, sn), sn)
                y   == 0 - (13 * MathCos(a) - 5 * MathCos(2 * a)
                            - 2 * MathCos(3 * a) - MathCos(4 * a))
                m   == 50
                v   == multiply(vectorFromCartesian(x, y), m)
            IN  ParticleNew(origin, v, f.hue, DefaultDecay)],
       rnd |-> s,
       gen |-> "heart"]

\* mutant of explodeAsDonut: the outer ring alone
explodeAsDonutOneRing(f, origin, s) ==
  [particles |->
     [j \in 1..PartCount |->
        ParticleNew(origin, vectorFromPolar((j - 1) * ((PI * 2) \div PartCount), 800),
                    f.hue, DefaultDecay)],
   rnd |-> s,
   gen |-> "donut"]

\* mutant of explodeAsDonut: the inner ring starts at the launch origin
explodeAsDonutAtLaunch(f, origin, s) ==
  LET angleIncr == (PI * 2) \div PartCount
  IN  [particles |->
         [j \in 1..(2 * PartCount) |->
            LET v == vectorFromPolar(((j - 1) \div 2) * angleIncr, 800)
            IN  IF j % 2 = 1 THEN ParticleNew(origin, v, f.hue, DefaultDecay)
                ELSE ParticleNew(f.origin, multiply(v, 800), f.hue, DefaultDecay)],
       rnd |-> s,
       gen |-> "donut"]

explodeAsDonut(f, origin, s) ==
  LET angleIncr == (PI * 2) \div PartCount
  IN  [particles |->
         [j \in 1..(2 * PartCount) |->
            LET a == ((j - 1) \div 2) * angleIncr
                m == 800
                v == vectorFromPolar(a, m)
            IN  IF j % 2 = 1 THEN ParticleNew(origin, v, f.hue, DefaultDecay)
                ELSE ParticleNew(origin, multiply(v, 800), f.hue, DefaultDecay)],
       rnd |-> s,
       gen |-> "donut"]

explodeAsCircle(f, origin, s) ==
  LET angleIncr == (PI * 2) \div PartCount
  IN  [particles |->
         [j \in 1..PartCount |->
            LET a == (j - 1) * angleIncr
                m == 800
                v == vectorFromPolar(a, m)
            IN  ParticleNew(origin, v, f.hue, DefaultDecay)],
       rnd |-> s,
       gen |-> "circle"]

\* mutant of explodeAsTwinkle: the radii in the order 4, 1, 3
explodeAsTwinkleShuffled(f, origin, s) ==
  [particles |->
     [j \in 1..(3 * random(4 * Milli, 7 * Milli, s).v) |->
        ParticleNew(origin,
                    vectorFromPolar((j - 1) * (PI \div random(4 * Milli, 7 * Milli, s).v),
                                    <<4 * Milli, 1 * Milli, 3 * Milli>>[((j - 1) % 3) + 1]),
                    f.hue, DefaultDecay)],
   rnd |-> random(4 * Milli, 7 * Milli, s).rnd,
   gen |-> "twinkle"]

explodeAsTwinkle(f, origin, s) ==
  LET arms     == random(4 * Milli, 7 * Milli, s)
      radiuses == <<4 * Milli, 3 * Milli, 1 * Milli>>
      angle    == PI \div arms.v
  IN  [particles |->
         [j \in 1..(3 * arms.v) |->
            LET i == j - 1
                r == radiuses[(i % 3) + 1]
                v == vectorFromPolar(i * angle, r)
            IN  ParticleNew(origin, v, f.hue, DefaultDecay)],
       rnd |-> arms.rnd,
       gen |-> "twinkle"]

\* max after "if (v.magnitude > max) max = v.magnitude" over all vectors, from 0
MaxMagnitude(vectors) ==
  LET mags == {magnitude(vectors[j]) : j \in 1..Len(vectors)} \ {NaN}
  IN  CHOOSE m \in mags \cup {0} : \A k \in mags \cup {0} : k <= m

\* on an element without getTotalLength the second statement raises a
\* TypeError, before any fragment is pushed
explodeAsSvgPath(f, origin, svgPathEl, s) ==
  IF ~IsGeometryElement(svgPathEl)
  THEN [particles |-> <<>>, rnd |-> s, gen |-> "TypeError"]
  ELSE
  LET pathLength == MathFloor(getTotalLength(svgPathEl))
      vectors == [j \in 1..PartCount |->
                    LET pt == getPointAtLength(svgPathEl, (pathLength * (j - 1)) \div PartCount)
                    IN  Vector(pt.x, pt.y)]
      max == MaxMagnitude(vectors)
  IN  [particles |->
         [j \in 1..PartCount |->
            ParticleNew(origin, divide(vectors[j], max), f.hue, DefaultDecay)],
       rnd |-> s,
       gen |-> "svg-path"]

K_VALS == << <<2, 1>>, <<3, 1>>, <<4, 1>>, <<5, 1>>, <<6, 1>>, <<7, 1>>,
             <<3, 2>>, <<4, 2>>, <<5, 2>>, <<6, 2>>, <<7, 2>>,
             <<2, 3>>, <<4, 3>>, <<5, 3>>, <<6, 3>>, <<7, 3>>,
             <<3, 4>>, <<5, 4>>, <<6, 4>>, <<7, 4>>,
             <<2, 5>>, <<3, 5>>, <<4, 5>>, <<6, 5>>, <<7, 5>>,
             <<4, 6>>, <<5, 6>>, <<7, 6>>,
             <<2, 7>>, <<3, 7>>, <<4, 7>>, <<5, 7>>, <<6, 7>>,
             <<3, 8>>, <<5, 8>>, <<6, 8>>, <<7, 8>>,
             <<2, 9>>, <<4, 9>>, <<5, 9>>, <<6, 9>>, <<7, 9>> >>

RECURSIVE rec(_, _)
rec(a, b) == IF b # 0 THEN rec(b, a % b) ELSE a

reduceDenominator(n, d) == d \div rec(n, d)

RECURSIVE RoseStep(_, _)
RoseStep(maxAngle, step) ==
  IF maxAngle > 180 * step THEN RoseStep(maxAngle, step * 2) ELSE step

\* the loop "for (a = 0; a < maxAngle; a += step)": a is accumulated in double
\* precision, and the sum of i steps that equals maxAngle mathematically falls
\* short of it by rounding, so the loop runs once more
RoseCount(maxAngle, step) == maxAngle \div step + 1

explodeAsRose(f, origin, s) ==
  LET kVal     == randomElement(K_VALS, s)
      n        == kVal.v[1]
      d        == kVal.v[2]
      maxAngle == PI * 2 * reduceDenominator(n, d)
      step     == RoseStep(maxAngle, PI \div 180)
  IN  [particles |->
         [j \in 1..RoseCount(maxAngle, step) |->
            LET a == (j - 1) * step
                m == NMul(800, MathCos((n * a) \div d))
                v == vectorFromPolar(a, m)
            IN  ParticleNew(origin, v, f.hue, DefaultDecay)],
       rnd |-> kVal.rnd,
       gen |-> "rose"]

RANDOM_SHAPES == <<"hearts", "normal", "donuts", "roses", "circles", "stars", "svg-path">>

\* mutant of resolveShape: the list also offers twinkles
resolveShapeWithTwinkles(f, s) ==
  IF f.shape # "random" THEN [v |-> f.shape, rnd |-> s]
  ELSE randomElement(RANDOM_SHAPES \o <<"twinkles">>, s)

\* first line of Firework.explode: the shape the switch dispatches on
resolveShape(f, s) ==
  IF f.shape # "random" THEN [v |-> f.shape, rnd |-> s]
  ELSE randomElement(RANDOM_SHAPES, s)

\* mutant of explodeAsSvgPathOrNormal: the case ends without falling through
explodeAsSvgPathOrNothing(f, origin, s) ==
  LET svgPathEl == getElementById(f.svgPathId)
  IN  IF svgPathEl # Null THEN explodeAsSvgPath(f, origin, svgPathEl, s)
      ELSE [particles |-> <<>>, rnd |-> s, gen |-> "none"]

\* case 'svg-path' of the switch, which falls through to 'normal' when the
\* element is not found
explodeAsSvgPathOrNormal(f, origin, s) ==
  LET svgPathEl == getElementById(f.svgPathId)
  IN  IF svgPathEl # Null THEN explodeAsSvgPath(f, origin, svgPathEl, s)
      ELSE explodeAsNormal(f, origin, s)

\* the switch of Firework.explode on the resolved shape
explodeSwitch(f, origin, shape, r) ==
  CASE shape \in {"hearts", "heart"}     -> explodeAsHeart(f, origin, r)
    [] shape \in {"circles", "circle"}   -> explodeAsCircle(f, origin, r)
    [] shape \in {"donuts", "donut"}     -> explodeAsDonut(f, origin, r)
    [] shape \in {"roses", "rose"}       -> explodeAsRose(f, origin, r)
    [] shape \in {"twinkles", "twinkle"} -> explodeAsTwinkle(f, origin, r)
    [] shape \in {"umbrellas", "umbrella", "star", "stars", "skulls", "skull",
                  "rabbits", "rabbit", "eagles", "eagle"}
                                         -> explodeAsSvgPath(f, origin, createSvgPath(shape), r)
    [] shape = "svg-path"                -> explodeAsSvgPathOrNormal(f, origin, r)
    [] OTHER                             -> explodeAsNormal(f, origin, r)

\* the fragments out.particles pushed onto the particle list of f
pushFragments(f, shape, out) ==
  [particles |-> f.particles \o out.particles, rnd |-> out.rnd,
   gen |-> out.gen, shape |-> shape]

\* Firework.explode once the shape is resolved (pick.v) and the generator
\* advanced (pick.rnd)
explodeResolved(f, origin, pick) ==
  pushFragments(f, pick.v, explodeSwitch(f, origin, pick.v, pick.rnd))

\* Firework.explode: the particle list, the generator, and the shape and the
\* generator function used
explode(f, origin, s) == explodeResolved(f, origin, resolveShape(f, s))

ParticleAlive(p) == ~ParticleDead(p)

\* the loop of Firework.step over the fragments, from the last index down:
\* each is stepped and, when dead, spliced out at its own index, which moves
\* only fragments the loop has already visited
StepParticlesLoop(ps) ==
  SelectSeq([i \in 1..Len(ps) |-> ParticleStep(ps[i])], ParticleAlive)

\* mutant of FireworkAge: the countdown starts when the fragments are gone
FireworkAgeWhenBurntOut(f) == IF Len(f.particles) = 0 THEN f.lifespan - 1 ELSE f.lifespan

\* "this._lifespan -= 1" of an exploded firework
FireworkAge(f) == f.lifespan - 1

\* mutant of ExplodeCondition: apex tested with > instead of >=
ExplodeConditionStrict(f, p) ==
  \/ NGt(p.vel.y, 0)
  \/ (f.target # Null /\ NLt(distance(f.target, p.pos), TargetReach * Milli))

\* the condition of Firework.step under which the ascending particle p explodes
ExplodeCondition(f, p) ==
  \/ NGe(p.vel.y, 0)
  \/ (f.target # Null /\ NLt(distance(f.target, p.pos), TargetReach * Milli))

\* Firework.step: the firework, the generator and a record of what the call did
\* what the explosion step returns: removed is the firework after
\* "this._exploded = true; this._particles.splice(0, 1)", p the ascending
\* particle and out the result of this.explode(explosionCenter)
FireworkExploded(removed, p, out) ==
  [fw |-> [removed EXCEPT !.particles = out.particles],
   rnd |-> out.rnd,
   ev |-> [kind |-> "explode", asc |-> p, gen |-> out.gen, shape |-> out.shape,
           thrown |-> out.gen = "TypeError"]]

\* the body of "if (vel.y >= 0.0 || ...)": explosionCenter is p.pos
FireworkExplode(removed, p, s) ==
  FireworkExploded(removed, p, explode(removed, p.pos, s))

\* the ascending branch of Firework.step after "this._particles[0].step()":
\* stepped is the firework that holds the stepped particle p
FireworkAscend(stepped, p, s) ==
  IF ExplodeCondition(stepped, p)
  THEN FireworkExplode([stepped EXCEPT !.exploded = TRUE,
                                       !.particles = Splice(stepped.particles, 1)], p, s)
  ELSE [fw |-> stepped, rnd |-> s,
        ev |-> [kind |-> "ascend", asc |-> p, gen |-> "none", shape |-> "none",
                thrown |-> FALSE]]

\* the ascending branch of Firework.step, p the particle after its step
FireworkStepParticle(f, p, s) == FireworkAscend([f EXCEPT !.particles[1] = p], p, s)

\* Firework.step: the firework, the generator and a record of what the call did
FireworkStep(f, s) ==
  IF ~f.exploded
  THEN FireworkStepParticle(f, ParticleStep(f.particles[1]), s)
  ELSE [fw |-> [f EXCEPT !.particles = StepParticlesLoop(f.particles),
                         !.lifespan = FireworkAge(f)],
        rnd |-> s,
        ev |-> [kind |-> "decay", asc |-> Null, gen |-> "none", shape |-> "none",
                thrown |-> FALSE]]

(***************************************************************************)
(* class Firework of the earlier version of the module (legacy): the same   *)
(* constructor and step, an explode that knows five shapes, and an          *)
(* explodeAsNormal of 360 fragments.  explodeAsHeart, explodeAsDonut,       *)
(* explodeAsCircle and explodeAsRose are the same text in both versions.    *)
(***************************************************************************)
LegacyPartCount == 360

legacyExplodeAsNormal(f, origin, s) ==
  LET angleIncr == (PI * 2) \div LegacyPartCount
  IN  [particles |->
         [j \in 1..LegacyPartCount |->
            LET a  == (j - 1) * angleIncr
                aa == RandomUnit(RandomSkip(s, j - 1))
                m  == 100 + NMul(1500, aa)
                v  == plus(vectorFromPolar(a, m), f.initialVelocity)
            IN  ParticleNew(origin, v, f.hue, DefaultDecay)],
       rnd |-> RandomSkip(s, LegacyPartCount),
       gen |-> "legacy normal"]

LEGACY_RANDOM_SHAPES == <<"hearts", "normal", "donuts", "roses", "circles">>

legacyResolveShape(f, s) ==
  IF f.shape # "random" THEN [v |-> f.shape, rnd |-> s]
  ELSE randomElement(LEGACY_RANDOM_SHAPES, s)

legacyExplodeSwitch(f, origin, shape, r) ==
  CASE shape = "hearts"  -> explodeAsHeart(f, origin, r)
    [] shape = "circles" -> explodeAsCircle(f, origin, r)
    [] shape = "donuts"  -> explodeAsDonut(f, origin, r)
    [] shape = "roses"   -> explodeAsRose(f, origin, r)
    [] OTHER             -> legacyExplodeAsNormal(f, origin, r)

legacyExplodeResolved(f, origin, pick) ==
  pushFragments(f, pick.v, legacyExplodeSwitch(f, origin, pick.v, pick.rnd))

legacyExplode(f, origin, s) == legacyExplodeResolved(f, origin, legacyResolveShape(f, s))

legacyFireworkExplode(removed, p, s) ==
  FireworkExploded(removed, p, legacyExplode(removed, p.pos, s))

legacyFireworkAscend(stepped, p, s) ==
  IF ExplodeCondition(stepped, p)
  THEN legacyFireworkExplode([stepped EXCEPT !.exploded = TRUE,
                                             !.particles = Splice(stepped.particles, 1)],
                             p, s)
  ELSE [fw |-> stepped, rnd |-> s,
        ev |-> [kind |-> "ascend", asc |-> p, gen |-> "none", shape |-> "none",
                thrown |-> FALSE]]

legacyFireworkStepParticle(f, p, s) ==
  legacyFireworkAscend([f EXCEPT !.particles[1] = p], p, s)

\* Firework.step of the legacy class
legacyFireworkStep(f, s) ==
  IF ~f.exploded
  THEN legacyFireworkStepParticle(f, ParticleStep(f.particles[1]), s)
  ELSE [fw |-> [f EXCEPT !.particles = StepParticlesLoop(f.particles),
                         !.lifespan = FireworkAge(f)],
        rnd |-> s,
        ev |-> [kind |-> "decay", asc |-> Null, gen |-> "none", shape |-> "none",
                thrown |-> FALSE]]

(***************************************************************************)
(* class FireworkBox.  A firework of a box carries an id, its number in the *)
(* order of ignition; the id is an observation, no code reads it.           *)
(***************************************************************************)
FireworkBoxNew(width, height, gravity, shape, svgPathId) ==
  [fireworks |-> <<>>, width |-> width, height |-> height, gravity |-> gravity,
   shape |-> shape, maxFireworks |-> 0, svgPathId |-> svgPathId]

count(b) == Len(b.fireworks)

\* mutant of LaunchVelocity: the factor 2 of the vertical velocity left out
LaunchVelocityNoFactor(b, xOrig, xTarget, yTarget) ==
  Vector(NDiv(NSub(xTarget, xOrig), 2 * FRAMES_PER_SECOND * Milli),
         NNeg(MathSqrt(NMul(GRAVITY.y, NSub(b.height, yTarget)))))

\* the launch velocity startNewFirework solves for
LaunchVelocity(b, xOrig, xTarget, yTarget) ==
  LET t    == 2 * FRAMES_PER_SECOND
      xVel == NDiv(NSub(xTarget, xOrig), t * Milli)
      yVel == NNeg(MathSqrt(NMul(NMul(2 * Milli, GRAVITY.y), NSub(b.height, yTarget))))
  IN  Vector(xVel, yVel)

\* xTarget and yTarget of startNewFirework: the target given, or two draws
LaunchAim(b, target, s) ==
  IF target # Null THEN [x |-> target.x, y |-> target.y, rnd |-> s, drawn |-> FALSE]
  ELSE LET xDraw == random(NMul(b.width, 100), NMul(b.width, 900), s)
           yDraw == random(NMul(b.height, 200), NMul(b.height, 400), xDraw.rnd)
       IN  [x |-> xDraw.v * Milli, y |-> yDraw.v * Milli, rnd |-> yDraw.rnd,
            drawn |-> TRUE]

\* mutant of Launched: a target given is handed on to the firework
LaunchedWithTarget(b, hue, aim, id) ==
  LET xOrig   == MathFloor(NDiv(b.width, 2 * Milli))
      origin  == Vector(xOrig, b.height)
      initialVelocity == LaunchVelocity(b, xOrig, aim.x, aim.y)
      firework == FireworkNew(origin, initialVelocity, b.shape, hue,
                              IF aim.drawn THEN Null ELSE Vector(aim.x, aim.y),
                              b.svgPathId)
                    @@ [id |-> id]
      fireworks == Append(b.fireworks, firework)
  IN  [box |-> [b EXCEPT !.fireworks = fireworks,
                         !.maxFireworks = IF Len(fireworks) > b.maxFireworks
                                          THEN Len(fireworks) ELSE b.maxFireworks],
       rnd |-> aim.rnd,
       launch |-> [xTarget |-> aim.x, yTarget |-> aim.y, drawn |-> aim.drawn]]

\* the rest of startNewFirework, for the hue and the target drawn; launch is
\* the target it aimed at
Launched(b, hue, aim, id) ==
  LET xOrig   == MathFloor(NDiv(b.width, 2 * Milli))
      origin  == Vector(xOrig, b.height)
      initialVelocity == LaunchVelocity(b, xOrig, aim.x, aim.y)
      firework == FireworkNew(origin, initialVelocity, b.shape, hue, Null, b.svgPathId)
                    @@ [id |-> id]
      fireworks == Append(b.fireworks, firework)
  IN  [box |-> [b EXCEPT !.fireworks = fireworks,
                         !.maxFireworks = IF Len(fireworks) > b.maxFireworks
                                          THEN Len(fireworks) ELSE b.maxFireworks],
       rnd |-> aim.rnd,
       launch |-> [xTarget |-> aim.x, yTarget |-> aim.y, drawn |-> aim.drawn]]

\* startNewFirework(target), target a point or Null: the box, the generator
\* and the target
startNewFirework(b, target, s, id) ==
  Launched(b, random(0, 360 * Milli, s).v,
           LaunchAim(b, target, random(0, 360 * Milli, s).rnd), id)

\* the loop of FireworkBox.step from index i down to 1
\* the end of one iteration: r is what p.step() returned for the firework at
\* index i; "if (p.dead) this._fireworks.splice(i, 1)"
\* when p.step() threw, the statements after it are not reached
BoxStepAt(st, i, r) ==
  [fireworks |-> IF ~r.ev.thrown /\ FireworkDead(r.fw) THEN Splice(st.fireworks, i)
                 ELSE [st.fireworks EXCEPT ![i] = r.fw],
   rnd |-> r.rnd,
   stepped |-> st.stepped \cup {st.fireworks[i].id},
   thrown |-> r.ev.thrown]

\* st is the list of fireworks, the generator, the ids of the fireworks
\* stepped so far and whether a step threw, which ends the loop; an
\* iteration is evaluated (next) before the loop goes on to index i - 1
RECURSIVE BoxStepLoop(_, _, _)
BoxStepLoop(st, gravity, i) ==
  IF i = 0 \/ st.thrown THEN st
  ELSE CHOOSE end \in
         { BoxStepLoop(next, gravity, i - 1) :
             next \in { BoxStepAt(st, i,
                                  FireworkStep(FireworkApplyForce(st.fireworks[i], gravity),
                                               st.rnd)) } } : TRUE

\* the box with the list the loop leaves
BoxStepped(b, st) ==
  [box |-> [b EXCEPT !.fireworks = st.fireworks], rnd |-> st.rnd,
   ev |-> [present |-> {b.fireworks[i].id : i \in 1..Len(b.fireworks)},
           stepped |-> st.stepped, thrown |-> st.thrown]]

\* FireworkBox.step
BoxStep(b, s) ==
  BoxStepped(b, BoxStepLoop([fireworks |-> b.fireworks, rnd |-> s, stepped |-> {},
                            thrown |-> FALSE], b.gravity,
                            Len(b.fireworks)))

(***************************************************************************)
(* The driver: function step(fireworksInfo) and the resize handler of start *)
(***************************************************************************)
\* mutant of TimeToIgnite: the cap tested with <=
TimeToIgniteOffByOne(t, last, freq, n) ==
  (t - last) * freq > 1000 /\ n <= MAX_CONCURRENT_FIREWORKS

\* mutant of TimeToIgnite: the interval tested against the frame, not the clock
TimeToIgniteEveryFrame(t, last, freq, n) ==
  t > last /\ n < MAX_CONCURRENT_FIREWORKS

\* "now - lastIgniteTime > 1000 / frequency && count < MAX_CONCURRENT_FIREWORKS",
\* for a frequency > 0
TimeToIgnite(t, last, freq, n) ==
  (t - last) * freq > 1000 /\ n < MAX_CONCURRENT_FIREWORKS

(***************************************************************************)
(* State                                                                    *)
(***************************************************************************)
VARIABLES
  rnd,             \* the generator behind Math.random
  fw,              \* a Firework constructed on its own
  fwEv,            \* what the last Firework.step of fw did (observation)
  box,             \* fireworksInfo.fireworksBox, or a FireworkBox on its own
  frequency,       \* fireworksInfo.frequency
  lastIgniteTime,  \* fireworksInfo.lastIgniteTime
  now,             \* the clock, new Date().getTime(), at the last tick
  ticks,           \* calls of the step function so far (observation)
  ignited,         \* fireworks started so far (observation)
  igniteLog,       \* time and box of the last two ignitions (observation)
  rescales,        \* runs of the resize handler so far (observation)
  shortFrames,     \* ticks that came early so far (observation)
  frame,           \* parity of the calls of FireworkBox.step so far (observation)
  boxEv,           \* what the last FireworkBox.step did (observation)
  particle,        \* a Particle constructed on its own
  pObs,            \* the calls made on particle so far (observation)
  launch,          \* the target of the last startNewFirework (observation)
  vecCall,         \* the last call of a method of Vector and what it did
  box2,            \* a second FireworkBox of the same page
  displays,        \* the module state of the fireworks module and the canvases
  events,          \* the module state of events.js and the last call
  logs,            \* the module state of log.js and the last call
  snow,            \* the module state of the snowflake module
  drag,            \* the containers made reorderable and the drag in progress
  heap             \* Vector objects by reference and the particles that hold them

\* the state outside the fireworks engine
pageVars == <<snow, drag, heap>>
utilVars == <<vecCall, box2, displays, events, logs, pageVars>>

\* the state of the fireworks engine
engineVars == <<rnd, fw, fwEv, box, frequency, lastIgniteTime, now, ticks, ignited,
                igniteLog, rescales, shortFrames, frame, boxEv, particle, pObs, launch>>

vars == <<engineVars, utilVars>>

\* neither the snowflakes nor a reorderable container is in use, and no
\* object is followed by reference
NoPage == snow = Null /\ drag = Null /\ heap = Null

\* nothing outside the engine is in use
NoUtils ==
  /\ vecCall = Null /\ box2 = Null /\ displays = Null /\ events = Null /\ logs = Null
  /\ NoPage

NoEvent == [kind |-> "init", asc |-> Null, gen |-> "none", shape |-> "none",
            thrown |-> FALSE]

NoBoxEvent == [present |-> {}, stepped |-> {}, thrown |-> FALSE]

NoDriver ==
  /\ frequency = 0 /\ lastIgniteTime = 0 /\ now = 0
  /\ igniteLog = <<>> /\ rescales = 0 /\ shortFrames = 0 /\ frame = 0
  /\ boxEv = NoBoxEvent
  /\ particle = Null /\ pObs = Null /\ launch = Null

\* the engine is not in use
NoEngine ==
  /\ rnd = 1 /\ fw = Null /\ fwEv = NoEvent /\ box = Null
  /\ ticks = 0 /\ ignited = 0
  /\ NoDriver

(***************************************************************************)
(* A Particle on its own: applyForce and step in any order                  *)
(***************************************************************************)
MaxSteps == 12
MaxForces == 3

Forces == {GRAVITY, Vector(30, 0 - 20)}

\* the arguments of the constructor: the decay left out (1), 0 and 9
ParticleInits ==
  { [vel |-> v, decay |-> d] : v \in {Vector(0, 0 - 1050), Vector(120, 45)},
                               d \in {DefaultDecay, 0, 9} }

InitParticle ==
  /\ \E c \in ParticleInits :
       particle = ParticleNew(Vector(20 * Milli, 40 * Milli), c.vel, 0, c.decay)
  /\ pObs = [forces |-> <<>>, last |-> <<>>, past |-> <<>>, steps |-> 0, calls |-> 0]
  /\ rnd = 1 /\ fw = Null /\ fwEv = NoEvent /\ box = Null
  /\ ticks = 0 /\ ignited = 0
  /\ frequency = 0 /\ lastIgniteTime = 0 /\ now = 0
  /\ igniteLog = <<>> /\ rescales = 0 /\ shortFrames = 0 /\ frame = 0
  /\ boxEv = NoBoxEvent /\ launch = Null /\ NoUtils

\* particle.applyForce(f); pObs.forces lists the forces since the last step
ParticleApplyForceCall ==
  /\ pObs.calls < MaxForces
  /\ \E f \in Forces :
       /\ particle' = ParticleApplyForce(particle, f)
       /\ pObs' = [pObs EXCEPT !.forces = Append(@, f), !.calls = @ + 1]
  /\ UNCHANGED <<rnd, fw, fwEv, box, frequency, lastIgniteTime, now, ticks, ignited,
                 igniteLog, rescales, shortFrames, frame, boxEv, launch, utilVars>>

\* particle.step(); pObs.past lists the positions before each step, the
\* latest first, and pObs.last the forces applied before this step
ParticleStepCall ==
  /\ pObs.steps < MaxSteps
  /\ particle' = ParticleStep(particle)
  /\ pObs' = [pObs EXCEPT !.forces = <<>>, !.last = pObs.forces,
                          !.past = <<particle.pos>> \o @, !.steps = @ + 1]
  /\ UNCHANGED <<rnd, fw, fwEv, box, frequency, lastIgniteTime, now, ticks, ignited,
                 igniteLog, rescales, shortFrames, frame, boxEv, launch, utilVars>>

NextParticle == ParticleApplyForceCall \/ ParticleStepCall

SpecParticle == InitParticle /\ [][NextParticle]_vars

(***************************************************************************)
(* Vector on its own: its methods called with arguments of any type         *)
(***************************************************************************)
Components == {0, 3 * Milli, 0 - 4 * Milli, 600, NaN}

VectorInputs == { Vector(x, y) : x \in Components, y \in Components }

Operands ==
  { JsVector(Vector(1 * Milli, 2 * Milli)), JsVector(Vector(0, 0)),
    JsObject(1 * Milli, 2 * Milli), JsNumber(5 * Milli), JsString("1,2"),
    JsNull, JsUndefined }

InitVector ==
  /\ \E v \in VectorInputs :
       vecCall = [op |-> "new", this |-> v, other |-> JsUndefined] @@ Returned(v)
  /\ box2 = Null /\ displays = Null /\ events = Null /\ logs = Null /\ NoPage
  /\ NoEngine

VectorCalled(op, v, other, r) ==
  /\ vecCall' = [op |-> op, this |-> v, other |-> other] @@ r
  /\ UNCHANGED <<engineVars, box2, displays, events, logs, pageVars>>

\* this.dot(other)
DotCall == \E other \in Operands : VectorCalled("dot", vecCall.this, other, dot(vecCall.this, other))

\* this.plus(other)
PlusCall ==
  \E other \in Operands : VectorCalled("plus", vecCall.this, other, plusCall(vecCall.this, other))

\* this.minus(other)
MinusCall ==
  \E other \in Operands : VectorCalled("minus", vecCall.this, other, minusCall(vecCall.this, other))

\* this.normalized()
NormalizedCall == VectorCalled("normalized", vecCall.this, JsUndefined, normalizedCall(vecCall.this))

NextVector == DotCall \/ PlusCall \/ MinusCall \/ NormalizedCall

SpecVector == InitVector /\ [][NextVector]_vars

(***************************************************************************)
(* A Firework on its own, stepped the way FireworkBox.step steps it         *)
(***************************************************************************)
FwOverrun == 2

SHAPES == {"hearts", "heart", "circles", "circle", "donuts", "donut", "roses", "rose",
           "twinkles", "twinkle", "umbrellas", "umbrella", "star", "stars",
           "skulls", "skull", "rabbits", "rabbit", "eagles", "eagle",
           "svg-path", "normal", "random"}

FwOrigin == Vector(20 * Milli, 40 * Milli)

\* launches: an initial velocity and a target (or none)
BaseLaunch == [vel |-> Vector(0, -1050), target |-> Null]

FwLaunches ==
  { BaseLaunch,
    [vel |-> Vector(83, -1870), target |-> Vector(30 * Milli, 15 * Milli)],
    [vel |-> Vector(0, -1870), target |-> Vector(0, 0)],
    [vel |-> Vector(0, 0), target |-> Null],
    [vel |-> Vector(0, NaN), target |-> Null] }

FwConfigs ==
  { [shape |-> sh, launch |-> BaseLaunch, svgPathId |-> "null", hue |-> 0, seed |-> 1] :
        sh \in SHAPES \cup {"bogus"} }
  \cup
  { [shape |-> "random", launch |-> BaseLaunch, svgPathId |-> "path1", hue |-> 360, seed |-> sd] :
        sd \in {50, 100, 125, 150, 200, 250} }
  \cup
  { [shape |-> sh, launch |-> BaseLaunch, svgPathId |-> id, hue |-> 360, seed |-> 250] :
        sh \in {"svg-path", "random"}, id \in {"missing", "path1"} }
  \cup
  { [shape |-> "twinkle", launch |-> l, svgPathId |-> "null", hue |-> 120, seed |-> sd] :
        l \in FwLaunches, sd \in {1, 100} }

InitFirework ==
  /\ \E c \in FwConfigs :
       /\ rnd = c.seed
       /\ fw = FireworkNew(FwOrigin, c.launch.vel, c.shape, c.hue, c.launch.target, c.svgPathId)
  /\ fwEv = NoEvent
  /\ box = Null /\ ticks = 0 /\ ignited = 0
  /\ NoDriver /\ NoUtils

\* one tick of a firework: p.applyForce(gravity); p.step()
FireworkTick ==
  /\ fw.lifespan > 0 - FwOverrun
  /\ \E r \in {FireworkStep(FireworkApplyForce(fw, GRAVITY), rnd)} :
       /\ fw' = r.fw
       /\ rnd' = r.rnd
       /\ fwEv' = r.ev
  /\ UNCHANGED <<box, frequency, lastIgniteTime, now, ticks, ignited, igniteLog,
                 rescales, shortFrames, frame, boxEv, particle, pObs, launch, utilVars>>

NextFirework == FireworkTick

SpecFirework == InitFirework /\ [][NextFirework]_vars

(***************************************************************************)
(* The burst: a firework at its apex, of the current or of the legacy       *)
(* class, takes the step that explodes it                                   *)
(***************************************************************************)
BurstSeeds == {1, 100, 150, 250}

\* every state of the generator: randomElement(K_VALS) picks every pair
RoseSeeds == 1..256

\* shape and svgPathId options; the legacy class has no svgPathId
BurstConfigs ==
  { [shape |-> sh, svgPathId |-> id, hue |-> h, seed |-> sd] :
      sh \in SHAPES \cup {"bogus"}, id \in {"null", "path1"}, h \in {0, 360},
      sd \in BurstSeeds }
  \cup
  { [shape |-> "roses", svgPathId |-> "null", hue |-> 0, seed |-> sd] : sd \in RoseSeeds }

\* a firework launched with no velocity: gravity makes its first step the
\* one that explodes it
InitBurst ==
  /\ \E c \in BurstConfigs :
       /\ rnd = c.seed
       /\ fw = FireworkNew(FwOrigin, Vector(0, 0), c.shape, c.hue, Null, c.svgPathId)
  /\ fwEv = NoEvent
  /\ box = Null /\ ticks = 0 /\ ignited = 0
  /\ NoDriver /\ NoUtils

\* p.applyForce(gravity); p.step() on a firework of the current class
BurstStep ==
  /\ ~fw.exploded
  /\ \E r \in {FireworkStep(FireworkApplyForce(fw, GRAVITY), rnd)} :
       fw' = r.fw /\ rnd' = r.rnd /\ fwEv' = r.ev
  /\ UNCHANGED <<box, frequency, lastIgniteTime, now, ticks, ignited, igniteLog,
                 rescales, shortFrames, frame, boxEv, particle, pObs, launch, utilVars>>

\* the same on a firework of the legacy class
LegacyBurstStep ==
  /\ ~fw.exploded
  /\ fw.svgPathId = "null"
  /\ \E r \in {legacyFireworkStep(FireworkApplyForce(fw, GRAVITY), rnd)} :
       fw' = r.fw /\ rnd' = r.rnd /\ fwEv' = r.ev
  /\ UNCHANGED <<box, frequency, lastIgniteTime, now, ticks, ignited, igniteLog,
                 rescales, shortFrames, frame, boxEv, particle, pObs, launch, utilVars>>

NextBurst == BurstStep \/ LegacyBurstStep

SpecBurst == InitBurst /\ [][NextBurst]_vars

(***************************************************************************)
(* A FireworkBox on its own: startNewFirework and step in any order         *)
(***************************************************************************)
MaxIgnitions == 2
MaxStartTick == 2

BoxSeeds == {1, 77}
\* the options of a box: twinkles, and a custom path whose id names an
\* element of the document that is no path
BoxConfigs == {[shape |-> "twinkle", svgPathId |-> "null"],
               [shape |-> "svg-path", svgPathId |-> "banner"]}
BoxTargets == {Vector(5 * Milli, 12 * Milli), Vector(10 * Milli, 50 * Milli)}

InitBox ==
  /\ rnd \in BoxSeeds
  /\ \E c \in BoxConfigs :
       box = FireworkBoxNew(20 * Milli, 40 * Milli, GRAVITY, c.shape, c.svgPathId)
  /\ fw = Null /\ fwEv = NoEvent
  /\ ticks = 0 /\ ignited = 0
  /\ NoDriver /\ NoUtils

BoxStartWith(target) ==
  /\ ignited < MaxIgnitions
  /\ ticks < MaxStartTick
  /\ \E r \in {startNewFirework(box, target, rnd, ignited + 1)} :
       box' = r.box /\ rnd' = r.rnd /\ launch' = r.launch
  /\ ignited' = ignited + 1
  /\ UNCHANGED <<fw, fwEv, frequency, lastIgniteTime, now, ticks, igniteLog,
                 rescales, shortFrames, frame, boxEv, particle, pObs, utilVars>>

\* box.startNewFirework()
BoxStart == BoxStartWith(Null)

\* box.startNewFirework(target)
BoxStartAt == \E target \in BoxTargets : BoxStartWith(target)

\* box.step()
BoxStepCall ==
  /\ \E r \in {BoxStep(box, rnd)} :
       box' = r.box /\ rnd' = r.rnd /\ boxEv' = r.ev
  /\ ticks' = IF ticks < MaxStartTick THEN ticks + 1 ELSE ticks
  /\ frame' = 1 - frame
  /\ UNCHANGED <<fw, fwEv, frequency, lastIgniteTime, now, ignited, igniteLog,
                 rescales, shortFrames, particle, pObs, launch, utilVars>>

NextBox == BoxStart \/ BoxStartAt \/ BoxStepCall

SpecBox == InitBox /\ [][NextBox]_vars

\* a call of step, seen in the observation: BoxStepCall flips frame and no
\* other action of NextBox changes it
StepCalled == frame' = 1 - frame

\* the animation keeps calling step
SpecBoxFair == SpecBox /\ WF_frame(StepCalled)

(***************************************************************************)
(* Two boxes of one page, as start builds them for two canvases: the        *)
(* methods of either called in any order.  Math.random and GRAVITY are the  *)
(* only things the two share.                                               *)
(***************************************************************************)
MaxBoxOps == 5

\* a target just above the bottom edge: the firework explodes on its second
\* step
TwoBoxTargets == {Null, Vector(10 * Milli, 39900)}

TheBox(i) == IF i = 1 THEN box ELSE box2

\* mutant of BoxesAfter: one list of fireworks for all boxes
BoxesAfterShared(b1, b2, i, nb) ==
  <<[b1 EXCEPT !.fireworks = nb.fireworks], [b2 EXCEPT !.fireworks = nb.fireworks]>>

\* the two boxes after a method of box i left it as nb: _fireworks and the
\* other fields are fields of the instance
BoxesAfter(b1, b2, i, nb) == <<IF i = 1 THEN nb ELSE b1, IF i = 2 THEN nb ELSE b2>>

InitTwoBoxes ==
  /\ rnd \in BoxSeeds
  /\ box = FireworkBoxNew(20 * Milli, 40 * Milli, GRAVITY, "twinkle", "null")
  /\ box2 = FireworkBoxNew(30 * Milli, 40 * Milli, GRAVITY, "circle", "null")
  /\ fw = Null /\ fwEv = NoEvent
  /\ ticks = 0 /\ ignited = 0
  /\ NoDriver
  /\ vecCall = Null /\ displays = Null /\ events = Null /\ logs = Null /\ NoPage

\* a method of box i returned: nb is the box it leaves, s the generator
TwoBoxesCalled(i, op, nb, s, ev) ==
  /\ ticks < MaxBoxOps
  /\ \E after \in {BoxesAfter(box, box2, i, nb)} : box' = after[1] /\ box2' = after[2]
  /\ rnd' = s
  /\ boxEv' = ev @@ [op |-> op, on |-> i]
  /\ ticks' = ticks + 1
  /\ UNCHANGED <<fw, fwEv, frequency, lastIgniteTime, now, igniteLog, rescales,
                 shortFrames, frame, particle, pObs, launch, vecCall, displays,
                 events, logs, pageVars>>

\* TheBox(i).startNewFirework(target)
TwoBoxesStart ==
  \E i \in {1, 2}, target \in TwoBoxTargets :
    /\ ignited < MaxIgnitions
    /\ \E r \in {startNewFirework(TheBox(i), target, rnd, ignited + 1)} :
         TwoBoxesCalled(i, "startNewFirework", r.box, r.rnd, NoBoxEvent)
    /\ ignited' = ignited + 1

\* TheBox(i).step()
TwoBoxesStep ==
  \E i \in {1, 2} :
    /\ \E r \in {BoxStep(TheBox(i), rnd)} : TwoBoxesCalled(i, "step", r.box, r.rnd, r.ev)
    /\ UNCHANGED ignited

\* TheBox(i).render(ctx): draws every particle, assigns no field
TwoBoxesRender ==
  \E i \in {1, 2} :
    /\ TwoBoxesCalled(i, "render", TheBox(i), rnd, NoBoxEvent)
    /\ UNCHANGED ignited

NextTwoBoxes == TwoBoxesStart \/ TwoBoxesStep \/ TwoBoxesRender

SpecTwoBoxes == InitTwoBoxes /\ [][NextTwoBoxes]_vars

(***************************************************************************)
(* The displays of a page: start and stop called on its canvases in any     *)
(* order.  displays holds fireworksIdGenerator, the keys of fireworksById,  *)
(* dataset.fireworksId of every canvas (0 when the attribute is absent),    *)
(* the displays whose animation was requested and not cancelled, and the    *)
(* last call.                                                               *)
(***************************************************************************)
MaxStarts == 4

CanvasEls == {"c1", "c2", "c3"}

NoDisplays ==
  [idGen |-> 0, registry |-> {}, dataset |-> [c \in CanvasEls |-> 0], running |-> {},
   last |-> [op |-> "none", canvas |-> "none", id |-> 0, thrown |-> FALSE]]

\* stop(canvasEl).  window.removeEventListener is called with one argument;
\* whether the page's DOM rejects that call is its business: removeThrows
\* stands for both outcomes.  The exception leaves stop before
\* cancelAnimFrame.  No statement of stop removes a key of fireworksById.
stop(d, canvasEl, removeThrows) ==
  LET fireworksId == d.dataset[canvasEl]
      known == fireworksId # 0 /\ fireworksId \in d.registry IN
  [d EXCEPT !.dataset[canvasEl] = 0,
            !.running = IF known /\ ~removeThrows THEN @ \ {fireworksId} ELSE @,
            !.last = [op |-> "stop", canvas |-> canvasEl, id |-> fireworksId,
                      thrown |-> known /\ removeThrows]]

\* start(canvasEl, options): stops the canvas first when it carries an id
start(d, canvasEl, removeThrows) ==
  LET stopped == IF d.dataset[canvasEl] # 0 THEN stop(d, canvasEl, removeThrows) ELSE d
      fireworksId == d.idGen + 1 IN
  IF d.dataset[canvasEl] # 0 /\ stopped.last.thrown
  THEN [stopped EXCEPT !.last.op = "start"]
  ELSE [stopped EXCEPT !.idGen = fireworksId,
                       !.dataset[canvasEl] = fireworksId,
                       !.registry = @ \cup {fireworksId},
                       !.running = @ \cup {fireworksId},
                       !.last = [op |-> "start", canvas |-> canvasEl, id |-> fireworksId,
                                 thrown |-> FALSE]]

InitDisplays ==
  /\ displays = NoDisplays
  /\ vecCall = Null /\ box2 = Null /\ events = Null /\ logs = Null /\ NoPage
  /\ NoEngine

DisplaysCalled(d) ==
  /\ displays' = d
  /\ UNCHANGED <<engineVars, vecCall, box2, events, logs, pageVars>>

Start ==
  \E canvasEl \in CanvasEls, removeThrows \in BOOLEAN :
    /\ displays.idGen < MaxStarts
    /\ DisplaysCalled(start(displays, canvasEl, removeThrows))

Stop ==
  \E canvasEl \in CanvasEls, removeThrows \in BOOLEAN :
    DisplaysCalled(stop(displays, canvasEl, removeThrows))

NextDisplays == Start \/ Stop

SpecDisplays == InitDisplays /\ [][NextDisplays]_vars

(***************************************************************************)
(* events.js: the registry of callbacks of custom events.  eventListeners   *)
(* is the object literal of line 3: keys are the event types that own a     *)
(* list, lists the list of each.  A callback is a function value; what the  *)
(* three functions of CallbackNames do when called is given by Invoke.      *)
(***************************************************************************)
MaxCalls == 4

JsFunction(name) == [type |-> "function", name |-> name]

\* "plain" does nothing, "adder" registers plain for the type of the event
\* it is called with, "remover" unregisters plain for that type
CallbackNames == {"plain", "adder", "remover"}
CallbackArgs == { JsFunction(n) : n \in CallbackNames } \cup {JsUndefined}

\* "toString" is a property every object literal inherits
EventTypes == {"open", "toString"}
InheritedNames == {"toString"}

NoListeners == [keys |-> {}, lists |-> [t \in EventTypes |-> <<>>]]

\* eventType in eventListeners
HasProperty(l, eventType) == eventType \in l.keys \/ eventType \in InheritedNames

EventsResult(l, r) == [l |-> l] @@ r

\* addEventListener(eventType, callback); for an inherited name no list is
\* made and push is read from the inherited function, which has none
addEventListener(l, eventType, callback) ==
  IF callback.type # "function" THEN EventsResult(l, Thrown("TypeError"))
  ELSE IF HasProperty(l, eventType) /\ eventType \notin l.keys
       THEN EventsResult(l, Thrown("TypeError"))
  ELSE EventsResult([keys |-> l.keys \cup {eventType},
                     lists |-> [l.lists EXCEPT ![eventType] = Append(@, callback)]],
                    Returned(JsUndefined))

\* removeEventListener(eventType, callback); line 36 reads the identifier
\* listeners, which nothing declares
removeEventListener(l, eventType, callback) ==
  IF callback.type # "function" THEN EventsResult(l, Thrown("TypeError"))
  ELSE IF ~HasProperty(l, eventType) THEN EventsResult(l, Returned(FALSE))
  ELSE EventsResult(l, Thrown("ReferenceError"))

\* callback.call(thisObject, event) for an event of type eventType
Invoke(l, callback, eventType) ==
  IF callback.name = "adder" THEN addEventListener(l, eventType, JsFunction("plain"))
  ELSE IF callback.name = "remover"
       THEN removeEventListener(l, eventType, JsFunction("plain"))
  ELSE EventsResult(l, Returned(JsUndefined))

\* the loop of dispatchEvent over the copy from index i on; st holds the
\* registry, the callbacks invoked so far and what a callback threw
RECURSIVE DispatchLoop(_, _, _, _)
DispatchLoop(st, copy, eventType, i) ==
  IF i > Len(copy) \/ st.thrown # "none" THEN st
  ELSE CHOOSE end \in
         { DispatchLoop([l |-> r.l, invoked |-> Append(st.invoked, copy[i]),
                         thrown |-> r.thrown],
                        copy, eventType, i + 1) :
             r \in { Invoke(st.l, copy[i], eventType) } } : TRUE

\* dispatchEvent(event) for an event of type eventType: calls counts the
\* callbacks that returned; slice is read from the inherited function when
\* the type is an inherited name
dispatchEvent(l, eventType) ==
  IF ~HasProperty(l, eventType)
  THEN [l |-> l, invoked |-> <<>>] @@ Returned(0)
  ELSE IF eventType \notin l.keys
  THEN [l |-> l, invoked |-> <<>>] @@ Thrown("TypeError")
  ELSE LET end == DispatchLoop([l |-> l, invoked |-> <<>>, thrown |-> "none"],
                               l.lists[eventType], eventType, 1) IN
       [l |-> end.l, invoked |-> end.invoked] @@
       (IF end.thrown # "none" THEN Thrown(end.thrown) ELSE Returned(Len(end.invoked)))

InitEvents ==
  /\ events = [l |-> NoListeners, before |-> NoListeners, calls |-> 0,
               last |-> [op |-> "none", eventType |-> "none", callback |-> JsUndefined,
                         invoked |-> <<>>] @@ Returned(JsUndefined)]
  /\ vecCall = Null /\ box2 = Null /\ displays = Null /\ logs = Null /\ NoPage
  /\ NoEngine

\* a function of events.js returned or threw: r is its result
EventsCalled(op, eventType, callback, r, invoked) ==
  /\ events.calls < MaxCalls
  /\ events' = [l |-> r.l, before |-> events.l, calls |-> events.calls + 1,
                last |-> [op |-> op, eventType |-> eventType, callback |-> callback,
                          invoked |-> invoked, thrown |-> r.thrown, value |-> r.value]]
  /\ UNCHANGED <<engineVars, vecCall, box2, displays, logs, pageVars>>

AddEventListener ==
  \E eventType \in EventTypes, callback \in CallbackArgs :
    EventsCalled("add", eventType, callback,
                 addEventListener(events.l, eventType, callback), <<>>)

RemoveEventListener ==
  \E eventType \in EventTypes, callback \in CallbackArgs :
    EventsCalled("remove", eventType, callback,
                 removeEventListener(events.l, eventType, callback), <<>>)

DispatchEvent ==
  \E eventType \in EventTypes :
    \E r \in {dispatchEvent(events.l, eventType)} :
      EventsCalled("dispatch", eventType, JsUndefined, r, r.invoked)

NextEvents == AddEventListener \/ RemoveEventListener \/ DispatchEvent

SpecEvents == InitEvents /\ [][NextEvents]_vars

(***************************************************************************)
(* log.js: the log handlers and the loggers.  A handler is a function       *)
(* value whose name says what it does when called: "quiet" returns, the     *)
(* others throw a value.                                                    *)
(***************************************************************************)
MaxLogCalls == 4

ERROR_LEVEL == 1000
WARNING_LEVEL == 900
INFO_LEVEL == 800
TRACE_LEVEL == 300

LogLevels == {ERROR_LEVEL, WARNING_LEVEL, INFO_LEVEL, TRACE_LEVEL}

JsError == [type |-> "Error", name |-> "Error"]

HandlerNames == {"quiet", "throwsError", "throwsNull", "throwsString"}
HandlerArgs == { JsFunction(n) : n \in HandlerNames } \cup {JsUndefined}

\* the global logger and a logger of the application, which has no level
\* of its own
LoggerNames == {"", "app"}

\* minLevel of the global logger as config leaves it: a level, or 0 for null
MinLevels == LogLevels \cup {0}

LogEvent(id, name, level) == [type |-> "object", id |-> id, name |-> name, level |-> level]

\* what a handler throws when called; Null when it returns
ThrownBy(handler) ==
  IF handler.name = "throwsError" THEN JsError
  ELSE IF handler.name = "throwsNull" THEN JsNull
  ELSE IF handler.name = "throwsString" THEN JsString("failed")
  ELSE Null

\* defaultHandler(value): the error it throws, "none" when it returns.
\* Reading name of null throws; a truthy name calls utils.formatDateTime,
\* which is no code of log.js: formatThrows stands for its outcome; a value
\* without args gets one assigned, which a string refuses in a module
defaultHandler(value, formatThrows) ==
  IF ReadThrows(value) THEN "TypeError"
  ELSE IF value.type \in {"object", "Error"} /\ value.name # "" /\ formatThrows
       THEN "TypeError"
  ELSE IF value.type = "string" THEN "TypeError"
  ELSE "none"

\* one iteration of the loop of fireLogEvent: the handler is called with the
\* event; when it throws, the catch block takes an id for errLogEvent and
\* passes err, not errLogEvent, to defaultHandler
FireAt(st, handler, logEvent, formatThrows) ==
  IF ThrownBy(handler) = Null
  THEN [st EXCEPT !.delivered = Append(@, handler), !.calls = @ + 1]
  ELSE [st EXCEPT !.delivered = Append(@, handler),
                  !.id = @ + 1,
                  !.defaults = Append(@, ThrownBy(handler)),
                  !.thrown = defaultHandler(ThrownBy(handler), formatThrows)]

RECURSIVE FireLoop(_, _, _, _, _)
FireLoop(st, callbacks, logEvent, formatThrows, i) ==
  IF i > Len(callbacks) \/ st.thrown # "none" THEN st
  ELSE CHOOSE end \in
         { FireLoop(next, callbacks, logEvent, formatThrows, i + 1) :
             next \in { FireAt(st, callbacks[i], logEvent, formatThrows) } } : TRUE

\* fireLogEvent(logEvent): delivered lists the handlers called with the
\* event, defaults the values defaultHandler was called with
fireLogEvent(handlers, id, logEvent, formatThrows) ==
  IF Len(handlers) = 0
  THEN [delivered |-> <<>>, calls |-> 0, id |-> id, defaults |-> <<logEvent>>,
        thrown |-> defaultHandler(logEvent, formatThrows)]
  ELSE FireLoop([delivered |-> <<>>, calls |-> 0, id |-> id, defaults |-> <<>>,
                 thrown |-> "none"], handlers, logEvent, formatThrows, 1)

\* "this.minLevel || globalLogger.minLevel || INFO_LEVEL": the application's
\* logger has no minLevel
ActualMinLevel(globalMinLevel) == IF globalMinLevel # 0 THEN globalMinLevel ELSE INFO_LEVEL

\* Logger.log(logLevel, ...) of the logger called name
log(g, name, logLevel, formatThrows) ==
  IF ActualMinLevel(g.minLevel) > logLevel
  THEN [passed |-> FALSE, id |-> g.id, delivered |-> <<>>, calls |-> 0,
        defaults |-> <<>>, thrown |-> "none"]
  ELSE [passed |-> TRUE] @@
       fireLogEvent(g.handlers, g.id + 1, LogEvent(g.id + 1, name, logLevel), formatThrows)

\* addLogHandler(callback)
addLogHandler(handlers, callback) ==
  IF callback.type # "function" THEN [handlers |-> handlers] @@ Thrown("TypeError")
  ELSE [handlers |-> Append(handlers, callback)] @@ Returned(JsUndefined)

\* removeLogHandler(callback): the first registration of callback goes
removeLogHandler(handlers, callback) ==
  IF callback.type # "function" THEN [handlers |-> handlers] @@ Thrown("TypeError")
  ELSE IF \E i \in 1..Len(handlers) : handlers[i] = callback
       THEN [handlers |-> Splice(handlers,
                                 CHOOSE i \in 1..Len(handlers) :
                                   /\ handlers[i] = callback
                                   /\ \A j \in 1..(i - 1) : handlers[j] # callback)]
            @@ Returned(TRUE)
  ELSE [handlers |-> handlers] @@ Returned(FALSE)

NoLogCall == [op |-> "none", logger |-> "", level |-> 0, passed |-> FALSE,
              delivered |-> <<>>, defaults |-> <<>>, thrown |-> "none"]

InitLog ==
  /\ logs = [handlers |-> <<>>, before |-> <<>>, minLevel |-> INFO_LEVEL, id |-> 0,
             calls |-> 0, last |-> NoLogCall]
  /\ vecCall = Null /\ box2 = Null /\ displays = Null /\ events = Null /\ NoPage
  /\ NoEngine

LogCalled(g) ==
  /\ logs.calls < MaxLogCalls
  /\ logs' = [g EXCEPT !.calls = logs.calls + 1, !.before = logs.handlers]
  /\ UNCHANGED <<engineVars, vecCall, box2, displays, events, pageVars>>

AddLogHandler ==
  \E callback \in HandlerArgs :
    \E r \in {addLogHandler(logs.handlers, callback)} :
      LogCalled([logs EXCEPT !.handlers = r.handlers,
                             !.last = [NoLogCall EXCEPT !.op = "add", !.thrown = r.thrown]])

RemoveLogHandler ==
  \E callback \in HandlerArgs :
    \E r \in {removeLogHandler(logs.handlers, callback)} :
      LogCalled([logs EXCEPT !.handlers = r.handlers,
                             !.last = [NoLogCall EXCEPT !.op = "remove", !.thrown = r.thrown]])

\* config({'min-level': minLevel})
Config ==
  \E minLevel \in MinLevels :
    LogCalled([logs EXCEPT !.minLevel = minLevel, !.last = [NoLogCall EXCEPT !.op = "config"]])

\* logger.log(logLevel, message)
Log ==
  \E name \in LoggerNames, logLevel \in LogLevels, formatThrows \in BOOLEAN :
    \E r \in {log(logs, name, logLevel, formatThrows)} :
      LogCalled([logs EXCEPT !.id = r.id,
                             !.last = [op |-> "log", logger |-> name, level |-> logLevel,
                                       passed |-> r.passed, delivered |-> r.delivered,
                                       defaults |-> r.defaults, thrown |-> r.thrown]])

NextLog == AddLogHandler \/ RemoveLogHandler \/ Config \/ Log

SpecLog == InitLog /\ [][NextLog]_vars

(***************************************************************************)
(* The snowflake module: start, stop, reset and the animation step.  snow   *)
(* holds snowFlakes, snowOptions.count, started, createSnowFlakes and       *)
(* whether the animation start asked for is still scheduled; positions are  *)
(* whole pixels.                                                            *)
(***************************************************************************)
MaxSnowSteps == 6
MaxSnowCalls == 3

DEFAULT_SNOW_FLAKE_COUNT == 30

\* window.innerWidth and window.innerHeight
SnowScreenWidth == 4
SnowScreenHeight == 3

\* options.count as the caller passes it; 0 stands for options without count
SnowCounts == {0, 1, 2}
SnowSeeds == {1, 100}

NoSnow == [flakes |-> <<>>, count |-> DEFAULT_SNOW_FLAKE_COUNT, started |-> FALSE,
           createSnowFlakes |-> FALSE, anim |-> FALSE, made |-> 0, gone |-> 0,
           op |-> "none",
           steps |-> 0, calls |-> 0]

\* start(options)
snowStart(sn, optCount) ==
  IF ~sn.started
  THEN [sn EXCEPT !.createSnowFlakes = TRUE, !.started = TRUE,
                  !.count = IF optCount = 0 THEN DEFAULT_SNOW_FLAKE_COUNT ELSE optCount,
                  !.anim = TRUE, !.op = "start"]
  ELSE [sn EXCEPT !.createSnowFlakes = TRUE, !.op = "start"]

\* stop()
snowStop(sn) == [sn EXCEPT !.createSnowFlakes = FALSE, !.op = "stop"]

\* reset()
snowReset(sn) == [sn EXCEPT !.anim = FALSE, !.flakes = <<>>, !.started = FALSE, !.op = "reset"]

\* createSnowFlake(): xPos, yPos, size, zIndex, dir and fallSpeed are drawn
\* in this order, then the colour and the symbol
createSnowFlake(flakes, s) ==
  LET xPos == random(0, SnowScreenWidth * Milli, s)
      yPos == random(10 * Milli, (SnowScreenWidth * Milli) \div 2, xPos.rnd)
      dir == randomElement(<<0 - 1, 1>>, RandomSkip(yPos.rnd, 2))
      fallSpeed == randomElement(<<1, 2>>, dir.rnd)
  IN  [flakes |-> Append(flakes, [id |-> Len(flakes), xPos |-> xPos.v, yPos |-> 0 - yPos.v,
                                  dir |-> dir.v, fallSpeed |-> fallSpeed.v]),
       rnd |-> RandomSkip(fallSpeed.rnd, 2)]

\* mutant of SnowFlakeMoved: a flake below the screen is recycled also after stop
SnowFlakeMovedRecycling(st, i, createSnowFlakes) ==
  LET snowFlake == st.flakes[i]
      drift == random(0, 1 * Milli, st.rnd)
      xPos == snowFlake.xPos + drift.v * snowFlake.dir
      yPos == snowFlake.yPos + snowFlake.fallSpeed
      xNew == random(0, SnowScreenWidth * Milli, drift.rnd)
      yNew == random(10 * Milli, 20 * Milli, xNew.rnd)
  IN  IF yPos > SnowScreenHeight
      THEN [flakes |-> [st.flakes EXCEPT ![i].xPos = xNew.v, ![i].yPos = 0 - yNew.v],
            rnd |-> yNew.rnd]
      ELSE [flakes |-> [st.flakes EXCEPT ![i].xPos = xPos, ![i].yPos = yPos],
            rnd |-> drift.rnd]

\* one iteration of the loop of snowStep, for the flake at index i
SnowFlakeMoved(st, i, createSnowFlakes) ==
  LET snowFlake == st.flakes[i]
      drift == random(0, 1 * Milli, st.rnd)
      xPos == snowFlake.xPos + drift.v * snowFlake.dir
      yPos == snowFlake.yPos + snowFlake.fallSpeed
      xNew == random(0, SnowScreenWidth * Milli, drift.rnd)
      yNew == random(10 * Milli, 20 * Milli, xNew.rnd)
  IN  IF yPos > SnowScreenHeight
      THEN IF ~createSnowFlakes
           THEN [flakes |-> Splice(st.flakes, i), rnd |-> drift.rnd]
           ELSE [flakes |-> [st.flakes EXCEPT ![i].xPos = xNew.v, ![i].yPos = 0 - yNew.v],
                 rnd |-> yNew.rnd]
      ELSE [flakes |-> [st.flakes EXCEPT ![i].xPos = xPos, ![i].yPos = yPos],
            rnd |-> drift.rnd]

\* the loop of snowStep from index i down to 1
RECURSIVE SnowMoveLoop(_, _, _)
SnowMoveLoop(st, i, createSnowFlakes) ==
  IF i = 0 THEN st
  ELSE CHOOSE end \in
         { SnowMoveLoop(next, i - 1, createSnowFlakes) :
             next \in { SnowFlakeMoved(st, i, createSnowFlakes) } } : TRUE

\* mutant of SnowCreates: the count itself is still filled
SnowCreatesUpToCount(sn) == sn.createSnowFlakes /\ Len(sn.flakes) <= sn.count

\* "createSnowFlakes && (snowFlakes.length < snowOptions.count)"
SnowCreates(sn) == sn.createSnowFlakes /\ Len(sn.flakes) < sn.count

\* snowStep()
snowStep(sn, s) ==
  LET made == IF SnowCreates(sn) THEN createSnowFlake(sn.flakes, s)
              ELSE [flakes |-> sn.flakes, rnd |-> s]
      end == SnowMoveLoop(made, Len(made.flakes), sn.createSnowFlakes)
  IN  [snow |-> [sn EXCEPT !.flakes = end.flakes,
                           !.made = Len(made.flakes) - Len(sn.flakes),
                           !.gone = Len(made.flakes) - Len(end.flakes),
                           !.op = "step"],
       rnd |-> end.rnd]

InitSnow ==
  /\ snow = NoSnow
  /\ rnd \in SnowSeeds
  /\ fw = Null /\ fwEv = NoEvent /\ box = Null /\ ticks = 0 /\ ignited = 0
  /\ NoDriver
  /\ vecCall = Null /\ box2 = Null /\ displays = Null /\ events = Null /\ logs = Null
  /\ drag = Null /\ heap = Null

\* a function of the module returned; the animation step flips frame
SnowCalled(sn, s, stepped) ==
  /\ snow' = sn
  /\ rnd' = s
  /\ frame' = IF stepped THEN 1 - frame ELSE frame
  /\ UNCHANGED <<fw, fwEv, box, frequency, lastIgniteTime, now, ticks, ignited, igniteLog,
                 rescales, shortFrames, boxEv, particle, pObs, launch, vecCall, box2,
                 displays, events, logs, drag, heap>>

\* the page calls start, stop or reset
SnowApiCalled(sn) ==
  /\ snow.calls < MaxSnowCalls
  /\ SnowCalled([sn EXCEPT !.calls = @ + 1], rnd, FALSE)

SnowStart == \E optCount \in SnowCounts : SnowApiCalled(snowStart(snow, optCount))

SnowStop == SnowApiCalled(snowStop(snow))

SnowReset == SnowApiCalled(snowReset(snow))

\* the animation calls snowStep while it is scheduled; the steps taken while
\* flakes are created are counted and capped, after stop the flakes run out
\* by themselves
SnowStep ==
  /\ snow.anim
  /\ snow.createSnowFlakes => snow.steps < MaxSnowSteps
  /\ \E r \in {snowStep(snow, rnd)} :
       SnowCalled([r.snow EXCEPT !.steps = IF snow.createSnowFlakes THEN @ + 1 ELSE @],
                  r.rnd, TRUE)

NextSnow == SnowStart \/ SnowStop \/ SnowReset \/ SnowStep

SpecSnow == InitSnow /\ [][NextSnow]_vars

\* the animation keeps calling snowStep
SpecSnowFair == SpecSnow /\ WF_frame(StepCalled)

(***************************************************************************)
(* reorder.mjs: a container whose children are reordered by dragging.  The  *)
(* children of the container are a sequence of element names; "null" is    *)
(* the null element and "outside" an element of another parent.             *)
(***************************************************************************)
MaxReorderCalls == 2

NoElement == "null"
ReorderContainer == "list"
ReorderChildren == <<"a", "b", "c">>
ReorderItems == {"a", "b", "c"}
DropCallBacks == {"onDrop"}

IndexOf(children, elem) == CHOOSE i \in 1..Len(children) : children[i] = elem

\* elem.nextElementSibling
NextElementSibling(children, elem) ==
  IF IndexOf(children, elem) = Len(children) THEN NoElement
  ELSE children[IndexOf(children, elem) + 1]

\* the children without elem
Detached(children, elem) == SelectSeq(children, LAMBDA e : e # elem)

\* parent.insertBefore(node, child) for a node that is a child of parent
\* already: the node moves; inserting a node before itself changes nothing
InsertBefore(children, node, child) ==
  IF node = child THEN children
  ELSE LET rest == Detached(children, node)
           at == IndexOf(rest, child)
       IN  SubSeq(rest, 1, at - 1) \o <<node>> \o SubSeq(rest, at, Len(rest))

\* parent.appendChild(node)
AppendChild(children, node) == Append(Detached(children, node), node)

\* compareOrder(elem1, elem2): "null" for elements of different parents
compareOrder(children, elem1, elem2) ==
  IF (elem1 \in ReorderItems) # (elem2 \in ReorderItems) THEN NoElement
  ELSE IF elem1 = elem2 THEN "0"
  ELSE IF elem1 \in ReorderItems /\ IndexOf(children, elem1) < IndexOf(children, elem2)
       THEN "-1"
  ELSE "1"

\* moveBefore(parent, elToMove, elToMoveBefore)
moveBefore(children, elToMove, elToMoveBefore) ==
  IF elToMoveBefore # NoElement THEN InsertBefore(children, elToMove, elToMoveBefore)
  ELSE AppendChild(children, elToMove)

\* moveAfter(parent, elToMove, elToMoveAfter)
moveAfter(children, elToMove, elToMoveAfter) ==
  IF NextElementSibling(children, elToMoveAfter) # NoElement
  THEN InsertBefore(children, elToMove, NextElementSibling(children, elToMoveAfter))
  ELSE AppendChild(children, elToMove)

NoDragState == [item |-> NoElement, nextItem |-> NoElement, dropped |-> FALSE]

\* mutant of startDrag: the element itself is remembered as the next one
startDragNoSibling(d, elem) ==
  [d EXCEPT !.dragState = [item |-> elem, nextItem |-> NoElement, dropped |-> FALSE],
            !.origin = d.children,
            !.timers = @ + 1]

\* startDrag(elem); the class "dragging" is added by a timer
startDrag(d, elem) ==
  [d EXCEPT !.dragState = [item |-> elem, nextItem |-> NextElementSibling(d.children, elem),
                           dropped |-> FALSE],
            !.origin = d.children,
            !.timers = @ + 1]

\* moveDragOver(overElem); without an item in dragState compareOrder reads
\* parentElement of null
moveDragOver(d, overElem) ==
  IF overElem = d.dragState.item THEN d
  ELSE IF d.dragState.item = NoElement THEN [d EXCEPT !.thrown = "TypeError"]
  ELSE LET order == compareOrder(d.children, overElem, d.dragState.item) IN
       IF order \in {NoElement, "0"} THEN d
       ELSE IF order = "-1"
            THEN [d EXCEPT !.children = moveBefore(@, d.dragState.item, overElem)]
       ELSE [d EXCEPT !.children = moveAfter(@, d.dragState.item, overElem)]

\* endDrag(cancelled, dropCallBack): calls lists the calls of drop callbacks
endDrag(d, cancelled, dropCallBack) ==
  LET item == d.dragState.item
      moved == IF item # NoElement /\ cancelled
               THEN moveBefore(d.children, item, d.dragState.nextItem)
               ELSE d.children
  IN  [d EXCEPT !.children = moved,
                !.dragging = @ \ {item},
                !.calls = Append(@, [dropCallBack |-> dropCallBack, element |-> item,
                                     cancelled |-> cancelled]),
                !.dragState = NoDragState]

\* the event types of the listeners; "undefined" is the type a call of
\* removeEventListener gets from a property that does not exist
ContainerEventTypes == <<"drop", "dragover", "dragend">>
ItemEventTypes == <<"dragstart", "dragover", "touchstart", "touchmove", "touchcancel", "touchend">>
ReorderEventTypes ==
  {ContainerEventTypes[i] : i \in 1..3} \cup {ItemEventTypes[i] : i \in 1..6} \cup {"undefined"}
ReorderTargets == ReorderItems \cup {ReorderContainer}

\* a listener function: the call of makeReordable that made it and the
\* drop callback it holds
ListenerOf(made, dropCallBack) == [made |-> made, dropCallBack |-> dropCallBack]
NoListener == [targetElement |-> NoElement, eventType |-> "undefined",
               eventCallback |-> ListenerOf(0, "none")]

NoReorder ==
  [children |-> ReorderChildren, dragState |-> NoDragState, origin |-> ReorderChildren,
   dragging |-> {}, timers |-> 0, session |-> [kind |-> "none", target |-> NoElement],
   dom |-> [t \in ReorderTargets |-> [ty \in ReorderEventTypes |-> <<>>]],
   attr |-> [t \in ReorderTargets |-> 0],
   registry |-> [k \in 1..Cardinality(ReorderTargets) |->
                   [ty \in ReorderEventTypes |-> NoListener]],
   nextId |-> 1, made |-> 0, calls |-> <<>>, thrown |-> "none", event |-> "none",
   ended |-> "none", dragged |-> NoElement, before |-> ReorderChildren]

\* targetElement.removeEventListener(type, callback)
DomRemoveEventListener(dom, targetElement, type, callback) ==
  [dom EXCEPT ![targetElement][type] = SelectSeq(@, LAMBDA l : l # callback)]

\* the value of a property of a registry entry, undefined when the entry
\* has no such property
Property(entry, prop) == IF prop \in DOMAIN entry THEN entry[prop] ELSE "undefined"

\* mutant of addRevertibleEventListener: the earlier listener is removed
\* under the type it was registered for
addRevertibleEventListenerByType(d, targetElement, eventType, eventCallback) ==
  LET name == IF d.attr[targetElement] = 0 THEN d.nextId ELSE d.attr[targetElement]
      named == IF d.attr[targetElement] = 0
               THEN [d EXCEPT !.nextId = @ + 1, !.attr[targetElement] = name]
               ELSE d
      eventTypeListener == named.registry[name][eventType]
      dom == IF eventTypeListener.targetElement # NoElement
             THEN DomRemoveEventListener(named.dom, eventTypeListener.targetElement,
                                         eventTypeListener.eventType,
                                         eventTypeListener.eventCallback)
             ELSE named.dom
  IN  [named EXCEPT
         !.registry[name][eventType] = [targetElement |-> targetElement,
                                        eventType |-> eventType,
                                        eventCallback |-> eventCallback],
         !.dom = [dom EXCEPT ![targetElement][eventType] = Append(@, eventCallback)]]

\* addRevertibleEventListener(targetElement, eventType, eventCallback): the
\* attribute names the element's entry of the registry; an earlier listener
\* is removed under the type its entry gives as eventName
addRevertibleEventListener(d, targetElement, eventType, eventCallback) ==
  LET name == IF d.attr[targetElement] = 0 THEN d.nextId ELSE d.attr[targetElement]
      named == IF d.attr[targetElement] = 0
               THEN [d EXCEPT !.nextId = @ + 1, !.attr[targetElement] = name]
               ELSE d
      eventTypeListener == named.registry[name][eventType]
      dom == IF eventTypeListener.targetElement # NoElement
             THEN DomRemoveEventListener(named.dom, eventTypeListener.targetElement,
                                         Property(eventTypeListener, "eventName"),
                                         eventTypeListener.eventCallback)
             ELSE named.dom
  IN  [named EXCEPT
         !.registry[name][eventType] = [targetElement |-> targetElement,
                                        eventType |-> eventType,
                                        eventCallback |-> eventCallback],
         !.dom = [dom EXCEPT ![targetElement][eventType] = Append(@, eventCallback)]]

\* the listeners makeReordable registers, in its order: three on the
\* container, then six on each child
ReorderRegistrations(children) ==
  [i \in 1..3 |-> <<ReorderContainer, ContainerEventTypes[i]>>] \o
  [i \in 1..(6 * Len(children)) |->
     <<children[((i - 1) \div 6) + 1], ItemEventTypes[((i - 1) % 6) + 1]>>]

RECURSIVE AddListeners(_, _, _, _)
AddListeners(d, registrations, eventCallback, i) ==
  IF i > Len(registrations) THEN d
  ELSE CHOOSE end \in
         { AddListeners(next, registrations, eventCallback, i + 1) :
             next \in { addRevertibleEventListener(d, registrations[i][1],
                                                  registrations[i][2], eventCallback) } } : TRUE

\* makeReordable(containerEl, dropCallBack)
makeReordable(d, dropCallBack) ==
  AddListeners([d EXCEPT !.made = @ + 1], ReorderRegistrations(d.children),
               ListenerOf(d.made + 1, dropCallBack), 1)

\* what the listener of a target and type does with an event; draggable is
\* the answer of checkCurrentlyDraggable, over the sibling under the finger
\* ("outside" when the finger is over no child of the container)
ListenerRun(d, target, type, listener, draggable, over) ==
  IF target = ReorderContainer
  THEN IF type = "drop" THEN [d EXCEPT !.dragState.dropped = TRUE]
       ELSE IF type = "dragend"
            THEN endDrag(d, ~d.dragState.dropped, listener.dropCallBack)
       ELSE d
  ELSE IF type \in {"dragstart", "touchstart"}
       THEN IF draggable THEN startDrag(d, target) ELSE d
  ELSE IF type = "dragover" THEN moveDragOver(d, target)
  ELSE IF target \notin d.dragging THEN d
  ELSE IF type = "touchmove"
       THEN IF over = "outside" THEN d ELSE moveDragOver(d, over)
  ELSE IF type = "touchcancel" THEN endDrag(d, TRUE, listener.dropCallBack)
  ELSE endDrag(d, FALSE, listener.dropCallBack)

\* the listeners of one target and type run one after the other; what one
\* throws does not keep the next from running
RECURSIVE ListenersRun(_, _, _, _, _, _, _)
ListenersRun(d, listeners, target, type, draggable, over, i) ==
  IF i > Len(listeners) THEN d
  ELSE CHOOSE end \in
         { ListenersRun(next, listeners, target, type, draggable, over, i + 1) :
             next \in { ListenerRun(d, target, type, listeners[i], draggable, over) } } : TRUE

\* the page gets an event of a type at a target
ReorderDispatch(d, target, type, draggable, over) ==
  ListenersRun([d EXCEPT !.calls = <<>>, !.thrown = "none", !.event = type],
               d.dom[target][type], target, type, draggable, over, 1)

InitReorder ==
  /\ drag = NoReorder
  /\ vecCall = Null /\ box2 = Null /\ displays = Null /\ events = Null /\ logs = Null
  /\ snow = Null /\ heap = Null
  /\ NoEngine

\* the page after a call or an event: ended tells how a gesture ended,
\* dragged and before what was dragged and the order before the event
ReorderCalled(d, session, ended) ==
  /\ drag' = [d EXCEPT !.session = session, !.ended = ended,
                       !.dragged = drag.dragState.item, !.before = drag.children]
  /\ UNCHANGED <<engineVars, vecCall, box2, displays, events, logs, snow, heap>>

NoSession == [kind |-> "none", target |-> NoElement]

\* makeReordable(list, dropCallBack)
MakeReordable ==
  \E dropCallBack \in DropCallBacks :
    /\ drag.made < MaxReorderCalls
    /\ ReorderCalled([makeReordable(drag, dropCallBack) EXCEPT
                        !.calls = <<>>, !.thrown = "none", !.event = "makeReordable"],
                     drag.session, "none")

\* the user starts to drag a child with the mouse
DragStart ==
  \E item \in ReorderItems, draggable \in BOOLEAN :
    /\ drag.session.kind = "none" /\ drag.timers = 0
    /\ ReorderCalled(ReorderDispatch(drag, item, "dragstart", draggable, "outside"),
                     [kind |-> "drag", target |-> item], "none")

\* the mouse passes over a child
DragOver ==
  \E item \in ReorderItems :
    /\ drag.session.kind = "drag"
    /\ ReorderCalled(ReorderDispatch(drag, item, "dragover", TRUE, "outside"),
                     drag.session, "none")

\* the mouse is released over the container
DragDrop ==
  /\ drag.session.kind = "drag"
  /\ ReorderCalled(ReorderDispatch(drag, ReorderContainer, "drop", TRUE, "outside"),
                   [drag.session EXCEPT !.kind = "dropped"], "none")

\* the drag ends, after a drop or without one
DragEnd ==
  /\ drag.session.kind \in {"drag", "dropped"}
  /\ ReorderCalled(ReorderDispatch(drag, ReorderContainer, "dragend", TRUE, "outside"),
                   NoSession, IF drag.session.kind = "dropped" THEN "drop" ELSE "cancel")

\* a finger touches a child
TouchStart ==
  \E item \in ReorderItems, draggable \in BOOLEAN :
    /\ drag.session.kind = "none" /\ drag.timers = 0
    /\ ReorderCalled(ReorderDispatch(drag, item, "touchstart", draggable, "outside"),
                     [kind |-> "touch", target |-> item], "none")

\* the finger moves
TouchMove ==
  \E over \in ReorderItems \cup {"outside"} :
    /\ drag.session.kind = "touch"
    /\ ReorderCalled(ReorderDispatch(drag, drag.session.target, "touchmove", TRUE, over),
                     drag.session, "none")

\* the finger is lifted
TouchEnd ==
  /\ drag.session.kind = "touch"
  /\ ReorderCalled(ReorderDispatch(drag, drag.session.target, "touchend", TRUE, "outside"),
                   NoSession, "drop")

\* the touch is cancelled
TouchCancel ==
  /\ drag.session.kind = "touch"
  /\ ReorderCalled(ReorderDispatch(drag, drag.session.target, "touchcancel", TRUE, "outside"),
                   NoSession, "cancel")

\* the timer of startDrag fires: dragState.item.classList.add("dragging")
DragTimer ==
  /\ drag.timers > 0
  /\ ReorderCalled([drag EXCEPT !.timers = @ - 1,
                                !.dragging = IF drag.dragState.item # NoElement
                                             THEN @ \cup {drag.dragState.item} ELSE @,
                                !.thrown = IF drag.dragState.item # NoElement
                                           THEN "none" ELSE "TypeError",
                                !.calls = <<>>, !.event = "timer"],
                   drag.session, "none")

NextReorder ==
  \/ MakeReordable \/ DragStart \/ DragOver \/ DragDrop \/ DragEnd
  \/ TouchStart \/ TouchMove \/ TouchEnd \/ TouchCancel \/ DragTimer

SpecReorder == InitReorder /\ [][NextReorder]_vars

(***************************************************************************)
(* Vector objects by reference.  objs is the list of the Vector objects     *)
(* made so far, an object's reference its index; a particle holds the       *)
(* references of its _acc, _vel and _pos.  The fragments of one explosion   *)
(* are constructed with one origin object, and applyForce hands every       *)
(* particle the one GRAVITY object.                                         *)
(***************************************************************************)
MaxHeapSteps == 3

\* the methods of class Vector
VectorMethods ==
  {"dot", "plus", "minus", "multiply", "divide", "withMagnitude", "withAngle",
   "normalized", "equal", "clone"}

\* what a method of class Vector other than clone, plus and multiply
\* computes for the receiver at this; arg is a reference for dot, minus and
\* equal and a number for the others
VectorValue(objs, op, this, arg) ==
  CASE op = "dot"           -> dot(objs[this], JsVector(objs[arg])).value
    [] op = "minus"         -> minus(objs[this], objs[arg])
    [] op = "divide"        -> divide(objs[this], arg)
    [] op = "withMagnitude" -> withMagnitude(objs[this], arg)
    [] op = "withAngle"     -> withAngle(objs[this], arg)
    [] op = "normalized"    -> normalized(objs[this])
    [] op = "equal"         -> equal(objs[this], objs[arg])

\* "new Vector(x, y)": the objects with the new one and its reference
NewVector(objs, v) == [objs |-> Append(objs, v), ref |-> Len(objs) + 1, value |-> v]

\* this.clone()
cloneAt(objs, this) == NewVector(objs, clone(objs[this]))

\* mutant of plusAt: other is added into the receiver, which is returned
plusInPlace(objs, this, other) ==
  [objs |-> [objs EXCEPT ![this] = plus(objs[this], objs[other])], ref |-> this,
   value |-> plus(objs[this], objs[other])]

\* this.plus(other)
plusAt(objs, this, other) == NewVector(objs, plus(objs[this], objs[other]))

\* this.multiply(factor)
multiplyAt(objs, this, factor) == NewVector(objs, multiply(objs[this], factor))

\* a call of a method of class Vector: the objects after it, the reference
\* returned (0 for a number or a boolean) and the value.  Every method that
\* returns a Vector returns a new one, except normalized of a vector of
\* magnitude 0, which returns this.
VectorCallAt(objs, op, this, arg) ==
  CASE op = "clone"    -> cloneAt(objs, this)
    [] op = "plus"     -> plusAt(objs, this, arg)
    [] op = "multiply" -> multiplyAt(objs, this, arg)
    [] op \in {"dot", "equal"} ->
         [objs |-> objs, ref |-> 0, value |-> VectorValue(objs, op, this, arg)]
    [] op = "normalized" /\ magnitude(objs[this]) = 0 ->
         [objs |-> objs, ref |-> this, value |-> objs[this]]
    [] OTHER -> NewVector(objs, VectorValue(objs, op, this, arg))

\* new Particle(loc, vel, hue, decay), loc and vel references: _acc is a new
\* Vector, _vel and _pos are the objects given, _trails holds a clone
ParticleNewAt(objs, loc, vel, hue, decay) ==
  LET acc == Append(objs, Vector(0, 0))
      cloned == cloneAt(acc, loc)
  IN  [objs |-> cloned.objs,
       particle |-> [acc |-> Len(acc), vel |-> vel, pos |-> loc,
                     lifespan |-> ParticleLifespan, decay |-> decay, hue |-> hue,
                     trails |-> <<cloned.ref>>]]

\* Particle.applyForce(f), f a reference
ParticleApplyForceAt(objs, p, f) ==
  LET acc == plusAt(objs, p.acc, f)
  IN  [objs |-> acc.objs, particle |-> [p EXCEPT !.acc = acc.ref]]

\* Particle.step(): the entry put in front of _trails is a new object
ParticleStepAt(objs, p) ==
  LET entry == Append(objs, Vector(objs[p.pos].x, objs[p.pos].y))
      unshifted == <<Len(entry)>> \o p.trails
      trails == IF Len(unshifted) > MAX_PARTICLE_TRAIL
                THEN SubSeq(unshifted, 1, MAX_PARTICLE_TRAIL) ELSE unshifted
      vel == plusAt(entry, p.vel, p.acc)
      pos == plusAt(vel.objs, p.pos, vel.ref)
      acc == multiplyAt(pos.objs, p.acc, 0)
  IN  [objs |-> acc.objs,
       particle |-> [p EXCEPT !.trails = trails, !.vel = vel.ref, !.pos = pos.ref,
                              !.lifespan = p.lifespan - p.decay, !.acc = acc.ref]]

\* the particle p with the objects it refers to in place of the references
ParticleAt(objs, p) ==
  [p EXCEPT !.acc = objs[p.acc], !.vel = objs[p.vel], !.pos = objs[p.pos],
            !.trails = [i \in 1..Len(p.trails) |-> objs[p.trails[i]]]]

\* centres of an explosion and velocities of two of its fragments
HeapOrigins == {Vector(0, 0), Vector(20 * Milli, 10 * Milli)}
HeapVelocities ==
  { <<Vector(Milli, 0 - 2 * Milli), Vector(0 - Milli, 500)>>,
    <<Vector(0, 0), Vector(3 * Milli, 4 * Milli)>> }

\* the number multiply, divide and withMagnitude are called with, and the
\* angle of withAngle
HeapNumbers == {2 * Milli}
HeapAngles == {PI \div 2}

\* two fragments of one explosion: "new Particle(origin, v, this._hue)" twice
\* with the same origin; origin and gravity are the references of the
\* explosion centre and of GRAVITY
HeapBurst(origin, vels) ==
  LET objs == <<origin, GRAVITY, vels[1], vels[2]>>
      p1 == ParticleNewAt(objs, 1, 3, 0, DefaultDecay)
      p2 == ParticleNewAt(p1.objs, 1, 4, 0, DefaultDecay)
  IN  [objs |-> p2.objs, parts |-> <<p1.particle, p2.particle>>, steps |-> 0,
       origin |-> 1, gravity |-> 2,
       last |-> [op |-> "new", this |-> 0, arg |-> 0, value |-> Null]]

InitHeap ==
  /\ \E origin \in HeapOrigins, vels \in HeapVelocities : heap = HeapBurst(origin, vels)
  /\ vecCall = Null /\ box2 = Null /\ displays = Null /\ events = Null /\ logs = Null
  /\ snow = Null /\ drag = Null
  /\ NoEngine

HeapCalled(h) ==
  /\ heap' = h
  /\ UNCHANGED <<engineVars, vecCall, box2, displays, events, logs, snow, drag>>

\* a method of Vector called on the position of the first fragment, which
\* is the explosion centre until the fragment is stepped, with the explosion
\* centre or a number; what it returns is recorded and not kept
HeapVectorCall ==
  \E op \in VectorMethods, this \in {heap.parts[1].pos} :
  \E arg \in CASE op \in {"dot", "plus", "minus", "equal"} -> {heap.origin}
               [] op \in {"multiply", "divide", "withMagnitude"} -> HeapNumbers
               [] op = "withAngle" -> HeapAngles
               [] OTHER -> {0} :
  \E r \in {VectorCallAt(heap.objs, op, this, arg)} :
    HeapCalled([heap EXCEPT !.objs = SubSeq(r.objs, 1, Len(heap.objs)),
                            !.last = [op |-> op, this |-> this, arg |-> arg,
                                      value |-> r.value]])

\* p.applyForce(GRAVITY) of the fragment i
HeapApplyForce ==
  /\ heap.steps < MaxHeapSteps
  /\ \E i \in 1..Len(heap.parts) :
     \E r \in {ParticleApplyForceAt(heap.objs, heap.parts[i], heap.gravity)} :
       HeapCalled([heap EXCEPT !.objs = r.objs, !.parts[i] = r.particle,
                               !.steps = heap.steps + 1,
                               !.last = [op |-> "applyForce", this |-> i,
                                         arg |-> heap.gravity, value |-> Null]])

\* p.step() of the fragment i
HeapStep ==
  /\ heap.steps < MaxHeapSteps
  /\ \E i \in 1..Len(heap.parts) :
     \E r \in {ParticleStepAt(heap.objs, heap.parts[i])} :
       HeapCalled([heap EXCEPT !.objs = r.objs, !.parts[i] = r.particle,
                               !.steps = heap.steps + 1,
                               !.last = [op |-> "step", this |-> i, arg |-> 0,
                                         value |-> Null]])

NextHeap == HeapVectorCall \/ HeapApplyForce \/ HeapStep

SpecHeap == InitHeap /\ [][NextHeap]_vars

(***************************************************************************)
(* One launch: a box as start builds it, startNewFirework, then step until  *)
(* the firework explodes                                                    *)
(***************************************************************************)
MaxAscent == 125

\* canvas sizes; the last two have bands whose ends are no integers
LaunchCanvases ==
  { [w |-> 200 * Milli, h |-> 400 * Milli],
    [w |-> 205 * Milli, h |-> 398 * Milli],
    [w |-> 305 * Milli, h |-> 604 * Milli] }

\* states of the generator: the first and the last value of Math.random for
\* the hue (1, 256) and for xTarget (86, 171)
LaunchSeeds == {1, 86, 171, 256}

LaunchTargets == {Null, Vector(150 * Milli, 50 * Milli), Vector(150 * Milli, 100 * Milli)}

InitLaunch ==
  /\ rnd \in LaunchSeeds
  /\ \E c \in LaunchCanvases : box = FireworkBoxNew(c.w, c.h, GRAVITY, "normal", "null")
  /\ fw = Null /\ fwEv = NoEvent
  /\ ticks = 0 /\ ignited = 0
  /\ NoDriver /\ NoUtils

\* box.startNewFirework() or box.startNewFirework(target), once
LaunchCall ==
  /\ ignited = 0
  /\ \E target \in LaunchTargets :
     \E r \in {startNewFirework(box, target, rnd, 1)} :
       box' = r.box /\ rnd' = r.rnd /\ launch' = r.launch
  /\ ignited' = 1
  /\ UNCHANGED <<fw, fwEv, frequency, lastIgniteTime, now, ticks, igniteLog,
                 rescales, shortFrames, frame, boxEv, particle, pObs, utilVars>>

\* box.step(), while the firework ascends; ticks counts the calls
LaunchStep ==
  /\ ignited = 1
  /\ ticks < MaxAscent
  /\ ~box.fireworks[1].exploded
  /\ \E r \in {BoxStep(box, rnd)} :
       box' = r.box /\ rnd' = r.rnd /\ boxEv' = r.ev
  /\ ticks' = ticks + 1
  /\ frame' = 1 - frame
  /\ UNCHANGED <<fw, fwEv, frequency, lastIgniteTime, now, ignited, igniteLog,
                 rescales, shortFrames, particle, pObs, launch, utilVars>>

NextLaunch == LaunchCall \/ LaunchStep

SpecLaunch == InitLaunch /\ [][NextLaunch]_vars

(***************************************************************************)
(* The driver of one display: start, then ticks and resizes                 *)
(***************************************************************************)
MaxTicks == 16
MaxShortFrames == 1
MaxRescales == 1

ShortFrame == 17
LongFrame == 250
Frequencies == {5, 10}
Canvases == {[w |-> 200 * Milli, h |-> 400 * Milli], [w |-> 300 * Milli, h |-> 360 * Milli]}

\* the state start(canvasEl, options) leaves
InitDriver ==
  /\ rnd = 1
  /\ box = FireworkBoxNew(200 * Milli, 400 * Milli, GRAVITY, "twinkle", "null")
  /\ frequency \in Frequencies
  /\ lastIgniteTime = 0
  /\ now = 0
  /\ fw = Null /\ fwEv = NoEvent
  /\ ticks = 0 /\ ignited = 0 /\ igniteLog = <<>> /\ rescales = 0 /\ shortFrames = 0
  /\ frame = 0 /\ boxEv = NoBoxEvent
  /\ particle = Null /\ pObs = Null /\ launch = Null /\ NoUtils

\* function step(fireworksInfo), called when the clock reads t
DriverStep(t) ==
  \E ignite \in {TimeToIgnite(t, lastIgniteTime, frequency, count(box))} :
  \E started \in {IF ignite THEN startNewFirework(box, Null, rnd, ignited + 1)
                  ELSE [box |-> box, rnd |-> rnd, launch |-> launch]} :
  \E stepped \in {BoxStep(started.box, started.rnd)} :
      /\ now' = t
      /\ lastIgniteTime' = IF ignite THEN t ELSE lastIgniteTime
      /\ box' = stepped.box
      /\ rnd' = stepped.rnd
      /\ ignited' = IF ignite THEN ignited + 1 ELSE ignited
      /\ igniteLog' = IF ignite
                      THEN (IF igniteLog = <<>> THEN <<>>
                            ELSE <<igniteLog[Len(igniteLog)]>>)
                             \o <<[at |-> t, box |-> rescales]>>
                      ELSE igniteLog
      /\ ticks' = ticks + 1
      /\ frame' = 1 - frame
      /\ boxEv' = stepped.ev
      /\ launch' = started.launch
      /\ UNCHANGED <<fw, fwEv, frequency, rescales, particle, pObs, utilVars>>

\* a frame that comes after the nominal 1/60 s
Tick ==
  /\ ticks < MaxTicks
  /\ shortFrames < MaxShortFrames
  /\ DriverStep(now + ShortFrame)
  /\ shortFrames' = shortFrames + 1

\* a frame that comes late
LateTick ==
  /\ ticks < MaxTicks
  /\ DriverStep(now + LongFrame)
  /\ UNCHANGED shortFrames

\* the resize handler start registers: a new box, lastIgniteTime = 0
Rescale ==
  /\ rescales < MaxRescales
  /\ \E c \in Canvases :
       box' = FireworkBoxNew(c.w, c.h, GRAVITY, box.shape, box.svgPathId)
  /\ lastIgniteTime' = 0
  /\ rescales' = rescales + 1
  /\ UNCHANGED <<rnd, fw, fwEv, frequency, now, ticks, ignited, igniteLog, shortFrames,
                 frame, boxEv, particle, pObs, launch, utilVars>>

NextDriver == Tick \/ LateTick \/ Rescale

SpecDriver == InitDriver /\ [][NextDriver]_vars

Spec == SpecDriver

(***************************************************************************)
(* Properties of a Firework (SpecFirework)                                  *)
(***************************************************************************)
Fragments == 1..Len(fw.particles)

\* C1: the firework switches from Ascending to Exploded at most once and never
\* back; while Ascending its list holds exactly one particle, the ascending one
\* (decay 0); once Exploded the list holds no ascending particle, ever.
C1_Shape ==
  /\ ~fw.exploded => (Len(fw.particles) = 1 /\ fw.particles[1].decay = 0)
  /\ fw.exploded => \A i \in Fragments : fw.particles[i].decay # 0

C1_ExplodesOnce ==
  /\ []C1_Shape
  /\ [][fw.exploded => fw'.exploded]_vars

C1_Witness ==
  fw.exploded /\ fwEv.kind = "decay" /\ Len(fw.particles) > 1

\* C2: a step of an Ascending firework explodes it if and only if the ascending
\* particle, after being stepped in that step, has vertical velocity >= 0, or a
\* target was given and the particle is less than 10 away from it.
C2_Reached(p) ==
  \/ (p.vel.y # NaN /\ p.vel.y >= 0)
  \/ /\ fw.target # Null
     /\ p.pos.x # NaN /\ p.pos.y # NaN
     /\ (fw.target.x - p.pos.x) * (fw.target.x - p.pos.x)
          + (fw.target.y - p.pos.y) * (fw.target.y - p.pos.y) < (10 * Milli) * (10 * Milli)

C2_ExplodesIff ==
  [][~fw.exploded =>
       /\ fw'.exploded <=> C2_Reached(fwEv'.asc)
       /\ ~fw'.exploded => fw'.particles[1] = fwEv'.asc]_vars

\* an explosion decided by the target alone, and one decided at velocity 0
C2_Witness ==
  /\ fwEv.kind = "explode" /\ fw.exploded
  /\ fw.target # Null /\ fwEv.asc.vel.y < 0

\* C3: in the explosion step every fragment starts at the position the
\* ascending particle had after its last step, with decay 1, lifespan 100 and
\* the hue of the firework, for every shape.
C3_FragmentsAtCenter ==
  fwEv.kind = "explode" =>
    \A i \in Fragments :
      /\ fw.particles[i].pos = fwEv.asc.pos
      /\ fw.particles[i].decay = 1
      /\ fw.particles[i].lifespan = 100
      /\ fw.particles[i].hue = fw.hue

C3_Witness ==
  fwEv.kind = "explode" /\ fwEv.gen = "donut" /\ Len(fw.particles) = 360

\* C4: the lifespan of a firework is 200 while Ascending and right after the
\* explosion step, and every step of an Exploded firework lowers it by exactly
\* 1, with fragments left or without.
C4_Countdown ==
  /\ [](~fw.exploded \/ fwEv.kind = "explode" => fw.lifespan = 200)
  /\ [][fw.exploded => fw'.lifespan = fw.lifespan - 1]_vars

C4_Witness ==
  fw.exploded /\ Len(fw.particles) = 0 /\ fw.lifespan < 50

\* C9: a 'random' firework resolves its shape in the explosion step, never
\* before.  As amended: the shape chosen is one of the seven entries hearts,
\* normal, donuts, roses, circles, stars, svg-path, each of which can be
\* chosen; 'random' is never the result.
C9_Seven == {"hearts", "normal", "donuts", "roses", "circles", "stars", "svg-path"}

C9_ResolvedAtExplosion ==
  /\ [](fw.shape = "random" =>
          /\ ~fw.exploded => fwEv.shape = "none"
          /\ fwEv.kind = "explode" => fwEv.shape \in C9_Seven
          /\ {resolveShape(fw, s).v : s \in 1..256} = C9_Seven)
  /\ [][(fw.shape = "random" /\ ~fw'.exploded) => rnd' = rnd]_vars

C9_Witness ==
  fw.shape = "random" /\ fwEv.kind = "explode" /\ fwEv.shape = "stars"
    /\ fwEv.gen = "svg-path"

Singular(sh) ==
  CASE sh = "hearts" -> "heart" [] sh = "circles" -> "circle" [] sh = "donuts" -> "donut"
    [] sh = "roses" -> "rose" [] sh = "twinkles" -> "twinkle" [] sh = "stars" -> "star"
    [] sh = "skulls" -> "skull" [] sh = "rabbits" -> "rabbit" [] sh = "eagles" -> "eagle"
    [] sh = "umbrellas" -> "umbrella" [] OTHER -> sh

C9_Configured == {"normal", "circle", "donut", "heart", "rose", "twinkle", "star", "skull",
                  "rabbit", "eagle", "umbrella", "svg-path"}

\* C9 as stated: every shape of the configuration other than 'random' can be
\* the one chosen in the explosion step.
C9_AnyShape ==
  (fw.shape = "random" /\ fwEv.kind = "explode") =>
    /\ Singular(fwEv.shape) \in C9_Configured
    /\ \A sh \in C9_Configured : \E s \in 1..256 : Singular(resolveShape(fw, s).v) = sh

\* C10: when the shape to explode is 'svg-path' and the path id is not an
\* element of the document, the explosion is the normal burst of 180 fragments
\* and the firework is Exploded.
C10_FallsBackToNormal ==
  (fwEv.kind = "explode" /\ fwEv.shape = "svg-path"
     /\ fw.svgPathId \notin DOMAIN DocumentPaths) =>
    /\ fwEv.gen = "normal"
    /\ fw.exploded
    /\ Len(fw.particles) = 180
    /\ \A i \in Fragments :
         LET rel == minus(fw.particles[i].vel, fw.initialVelocity)
         IN  magnitude(rel) >= 100 - 2 /\ magnitude(rel) <= 1600 + 2

C10_Witness ==
  /\ fwEv.kind = "explode" /\ fw.shape = "svg-path" /\ fw.svgPathId = "missing"
  /\ Len(fw.particles) = 180

(***************************************************************************)
(* Properties of a FireworkBox (SpecBox, SpecBoxFair)                       *)
(***************************************************************************)
InBox(b, id) == \E i \in 1..Len(b.fireworks) : b.fireworks[i].id = id

FireworkOf(b, id) == b.fireworks[CHOOSE i \in 1..Len(b.fireworks) : b.fireworks[i].id = id]

\* the step about to be taken leaves f dead: its countdown reaches 0 and no
\* fragment outlives the step
C5_BecomesDead(f) ==
  /\ f.exploded
  /\ f.lifespan - 1 <= 0
  /\ \A i \in 1..Len(f.particles) : f.particles[i].lifespan - f.particles[i].decay <= 0

\* C5: a firework is dead exactly when its lifespan is <= 0 and its list is
\* empty; the box never holds a dead firework, and a call of step removes
\* exactly the fireworks that become dead in it.
C5_DeadRemoved ==
  /\ [](\A i \in 1..Len(box.fireworks) :
          /\ ~(box.fireworks[i].lifespan <= 0 /\ Len(box.fireworks[i].particles) = 0)
          /\ ~FireworkDead(box.fireworks[i]))
  /\ [][ignited' = ignited =>
          \A i \in 1..Len(box.fireworks) :
            InBox(box', box.fireworks[i].id) <=> ~C5_BecomesDead(box.fireworks[i])]_vars

\* the firework started second has been removed, the first is still there
C5_Witness ==
  /\ ignited = 2 /\ Len(box.fireworks) = 1
  /\ box.fireworks[1].id = 1 /\ box.fireworks[1].exploded

\* C6: every firework started by startNewFirework, with a target or without,
\* eventually explodes and is eventually removed from the box, provided step
\* keeps being called.
C6_EveryFireworkEnds ==
  \A id \in 1..MaxIgnitions :
    /\ InBox(box, id) ~> (~InBox(box, id) \/ FireworkOf(box, id).exploded)
    /\ InBox(box, id) ~> ~InBox(box, id)

(***************************************************************************)
(* Properties of the driver (SpecDriver)                                    *)
(***************************************************************************)
\* C7: the box of a display never holds more than 15 fireworks, and a tick
\* that finds 15 fireworks in the box starts none.
C7_CapHolds ==
  /\ [](count(box) <= 15)
  /\ [][count(box) = 15 => ignited' = ignited]_vars

\* a tick found the interval elapsed and the box full
C7_Witness ==
  /\ count(box) = 15 /\ ticks > ignited
  /\ (now - lastIgniteTime) * frequency > 1000

\* C8 as stated: a tick starts at most one firework, and the times of any two
\* consecutive ignitions of a display differ by more than 1000/frequency ms.
C8_AnyTwoIgnitions ==
  Len(igniteLog) = 2 => (igniteLog[2].at - igniteLog[1].at) * frequency > 1000

\* C8 as amended: a tick starts at most one firework, and only when the clock
\* exceeds lastIgniteTime (the time of the last ignition, or 0 since start or
\* the last resize) by more than 1000/frequency ms; two consecutive ignitions
\* with no resize between them differ by more than 1000/frequency ms.
C8_Cadence ==
  /\ [][/\ ignited' <= ignited + 1
        /\ ignited' = ignited + 1 => (now' - lastIgniteTime) * frequency > 1000]_vars
  /\ []((Len(igniteLog) = 2 /\ igniteLog[1].box = igniteLog[2].box) =>
          (igniteLog[2].at - igniteLog[1].at) * frequency > 1000)

\* two ignitions into one box with a tick between them that started nothing
C8_Witness ==
  /\ Len(igniteLog) = 2 /\ igniteLog[1].box = igniteLog[2].box
  /\ igniteLog[2].at - igniteLog[1].at = ShortFrame + LongFrame


\* C11: when the step of one firework throws during FireworkBox.step, every
\* other firework of the box is still stepped in that call: the fireworks
\* stepped by a call are all the fireworks the box held when it was called.
C11_AllStepped == boxEv.thrown => boxEv.stepped = boxEv.present


C35_Ids(b) == [i \in 1..Len(b.fireworks) |-> b.fireworks[i].id]

\* the particles f still holds after the call have each received gravity once
C35_GravityOnce(f, after, gravity) ==
  (after.exploded = f.exploded /\ Len(after.particles) = Len(f.particles)) =>
    \A j \in 1..Len(f.particles) :
      /\ after.particles[j].vel = plus(f.particles[j].vel, gravity)
      /\ after.particles[j].pos = plus(f.particles[j].pos, after.particles[j].vel)

\* C35: in one FireworkBox.step every firework present at the start of the
\* call is stepped once and gravity is applied once to each of its
\* particles, also when others are removed in the same call; the fireworks
\* that survive keep their relative order.
C35_EachSteppedOnce ==
  [][frame' # frame =>
      /\ boxEv'.present = {box.fireworks[i].id : i \in 1..Len(box.fireworks)}
      /\ boxEv'.stepped = boxEv'.present
      /\ \A i \in 1..Len(box.fireworks) :
           InBox(box', box.fireworks[i].id) =>
             C35_GravityOnce(box.fireworks[i], FireworkOf(box', box.fireworks[i].id),
                             box.gravity)
      /\ C35_Ids(box') = SelectSeq(C35_Ids(box), LAMBDA id : InBox(box', id))]_vars


(***************************************************************************)
(* Properties of a Particle (SpecParticle)                                  *)
(***************************************************************************)
\* C12: the trail of a particle never holds more than MAX_PARTICLE_TRAIL
\* positions, after construction and after any number of steps.
C12_TrailBounded == Len(particle.trails) <= MAX_PARTICLE_TRAIL

\* more steps than the trail can hold
C12_Witness ==
  pObs.steps > MAX_PARTICLE_TRAIL /\ Len(particle.trails) = MAX_PARTICLE_TRAIL

RECURSIVE SumForces(_)
SumForces(fs) ==
  IF fs = <<>> THEN [x |-> 0, y |-> 0]
  ELSE [x |-> fs[1].x + SumForces(Tail(fs)).x, y |-> fs[1].y + SumForces(Tail(fs)).y]

\* C13: a step computes velocity' = velocity + acceleration, position' =
\* position + velocity', lifespan' = lifespan - decay and acceleration' = 0,
\* where the acceleration is the sum of the forces applied since the last
\* step and of nothing older.
C13_Integration ==
  [][pObs'.steps = pObs.steps + 1 =>
       /\ particle.acc = SumForces(pObs.forces)
       /\ particle'.vel = [x |-> particle.vel.x + particle.acc.x,
                           y |-> particle.vel.y + particle.acc.y]
       /\ particle'.pos = [x |-> particle.pos.x + particle'.vel.x,
                           y |-> particle.pos.y + particle'.vel.y]
       /\ particle'.lifespan = particle.lifespan - particle.decay
       /\ particle'.acc = [x |-> 0, y |-> 0]]_vars

\* a step that followed two calls of applyForce, after an earlier step
C13_Witness ==
  /\ pObs.steps >= 2 /\ Len(pObs.last) = 2 /\ pObs.last[1] # pObs.last[2]
  /\ particle.acc = [x |-> 0, y |-> 0]

\* the steps the trail can tell apart
C14_Remembered ==
  1..(IF pObs.steps < MAX_PARTICLE_TRAIL THEN pObs.steps ELSE MAX_PARTICLE_TRAIL)

\* C14: after every step the head of the trail is the position before that
\* step, and the entry at index i (from 0), for i below the number of steps
\* and below MAX_PARTICLE_TRAIL, is the position the particle had i + 1 steps
\* ago.
C14_TrailOrder ==
  \A i \in C14_Remembered : particle.trails[i] = pObs.past[i]

\* a full trail of positions that all differ
C14_Witness ==
  /\ pObs.steps > MAX_PARTICLE_TRAIL
  /\ particle.trails[MAX_PARTICLE_TRAIL] = pObs.past[MAX_PARTICLE_TRAIL]
  /\ particle.trails[1] # particle.trails[2]
  /\ particle.trails[1] # particle.pos


(***************************************************************************)
(* Ageing of particles (SpecFirework)                                       *)
(***************************************************************************)
\* the steps a firework has taken since it exploded
C15_StepsSinceExplosion == FireworkLifespan - fw.lifespan

\* C15: the ascending particle does not age: its lifespan stays 100 and it is
\* never dead while the firework ascends.  A fragment loses exactly 1 of
\* lifespan per step, and a particle is dead exactly when its lifespan is at
\* most 0, so that fragments are held for exactly 100 steps.
C15_Ageing ==
  /\ ~fw.exploded =>
        /\ Len(fw.particles) = 1
        /\ fw.particles[1].lifespan = ParticleLifespan
        /\ ~ParticleDead(fw.particles[1])
  /\ fw.exploded =>
        /\ \A i \in Fragments :
              fw.particles[i].lifespan = ParticleLifespan - C15_StepsSinceExplosion
        /\ C15_StepsSinceExplosion >= ParticleLifespan => fw.particles = <<>>
  /\ \A i \in Fragments :
        ParticleDead(fw.particles[i]) <=> fw.particles[i].lifespan <= 0

\* the fragments of an explosion one step before they die
C15_Witness ==
  /\ fw.exploded
  /\ Len(fw.particles) = PartCount
  /\ \A i \in Fragments : fw.particles[i].lifespan = 1


(***************************************************************************)
(* Properties of a launch (SpecLaunch)                                      *)
(***************************************************************************)
\* the firework of the launch, and its ascending particle
Launched1 == box.fireworks[1]
Ascending1 == Launched1.particles[1]

\* the firework has just exploded
C16_Exploded == ignited = 1 /\ Launched1.exploded

\* C16: a firework started by startNewFirework ascends for exactly
\* FRAMES_PER_SECOND * 2 = 120 ticks before it explodes, and explodes at the
\* target (xTarget, yTarget).
C16_TwoSeconds ==
  C16_Exploded =>
    /\ ticks = FRAMES_PER_SECOND * 2
    /\ \A i \in 1..Len(Launched1.particles) :
          Launched1.particles[i].pos = Vector(launch.xTarget, launch.yTarget)


\* the launch has been made and no step taken
C17_AtLaunch == ignited = 1 /\ ticks = 0

\* C17: startNewFirework launches from (floor(width / 2), height) with
\* xVel = (xTarget - xOrig) / 120 and
\* yVel = -sqrt(2 * gravity.y * (height - yTarget)), gravity being the gravity
\* of the box; in a box 200 wide and 400 high with gravity (0, 0.07) the
\* target (150, 50) gives xVel = 50 / 120 and yVel = -7.
C17_LaunchVelocity ==
  C17_AtLaunch =>
    /\ Ascending1.pos = Vector(MathFloor(NDiv(box.width, 2 * Milli)), box.height)
    /\ Ascending1.vel.x = NDiv(NSub(launch.xTarget, Ascending1.pos.x), 120 * Milli)
    /\ Ascending1.vel.y = NNeg(MathSqrt(NMul(NMul(2 * Milli, box.gravity.y),
                                             NSub(box.height, launch.yTarget))))
    /\ (/\ box.width = 200 * Milli /\ box.height = 400 * Milli
        /\ box.gravity = Vector(0, 70)
        /\ launch.xTarget = 150 * Milli /\ launch.yTarget = 50 * Milli)
       => Ascending1.vel = Vector((50 * Milli) \div 120, 0 - 7 * Milli)

\* the launch of the example
C17_Witness ==
  /\ C17_AtLaunch
  /\ box.width = 200 * Milli /\ box.height = 400 * Milli
  /\ launch = [xTarget |-> 150 * Milli, yTarget |-> 50 * Milli, drawn |-> FALSE]
  /\ Ascending1.pos = Vector(100 * Milli, 400 * Milli)
  /\ Ascending1.vel.y = 0 - 7 * Milli


\* C18: when startNewFirework is called without a target, the target drawn
\* has 0.1 * width <= xTarget <= 0.9 * width and
\* 0.2 * height <= yTarget <= 0.4 * height, for every width and height.
C18_TargetInBands ==
  (launch # Null /\ launch.drawn) =>
    /\ NMul(box.width, 100) <= launch.xTarget
    /\ launch.xTarget <= NMul(box.width, 900)
    /\ NMul(box.height, 200) <= launch.yTarget
    /\ launch.yTarget <= NMul(box.height, 400)

\* the fireworks of the box
C19_Fireworks == IF box = Null THEN {} ELSE {box.fireworks[i] : i \in 1..Len(box.fireworks)}

C20_DonutPairs ==
  \A k \in 1..PartCount :
    fw.particles[2 * k].vel = multiply(fw.particles[2 * k - 1].vel, 800)

\* C20: an explosion leaves 180 fragments for normal, heart, circle and
\* every shape sampled from a path, 360 for donut (a second fragment per
\* angle with 0.8 times the velocity of the first) and 360 for the normal
\* burst of the legacy class.
C20_FragmentCount ==
  fwEv.kind = "explode" =>
    /\ fwEv.gen \in {"normal", "heart", "circle", "svg-path"} => Len(fw.particles) = 180
    /\ fwEv.gen = "donut" => Len(fw.particles) = 360 /\ C20_DonutPairs
    /\ fwEv.gen = "legacy normal" => Len(fw.particles) = 360

\* a normal burst of the legacy class
C20_Witness ==
  /\ fwEv.kind = "explode" /\ fwEv.gen = "legacy normal"
  /\ fw.exploded /\ Len(fw.particles) = 360


\* C21: for every (n, d) of the rose table, (3, 2) among them, the rose
\* generator sweeps [0, 2 * pi * d / gcd(n, d)), its step-doubling loop ends,
\* and it produces at most 180 fragments.
C21_RoseAtMost180 ==
  (fwEv.kind = "explode" /\ fwEv.gen = "rose") => Len(fw.particles) <= 180


\* the velocity of fragment i (from 0) of a twinkle of k arms
C22_Velocity(k, i) == vectorFromPolar(i * (PI \div k), <<4, 3, 1>>[(i % 3) + 1] * Milli)

\* C22: the twinkle generator picks an arm count k of 4..7 and produces
\* exactly 3k fragments, fragment i (from 0) with velocity magnitude
\* [4, 3, 1][i mod 3] and angle i * pi / k; 15 fragments for k = 5.
C22_Twinkle ==
  (fwEv.kind = "explode" /\ fwEv.gen = "twinkle") =>
    \E k \in 4..7 :
      /\ Len(fw.particles) = 3 * k
      /\ \A i \in 0..(3 * k - 1) : fw.particles[i + 1].vel = C22_Velocity(k, i)

\* a twinkle of 5 arms and 15 fragments
C22_Witness ==
  /\ fwEv.kind = "explode" /\ fwEv.gen = "twinkle"
  /\ Len(fw.particles) = 15
  /\ fw.particles[2].vel = C22_Velocity(5, 1)


(***************************************************************************)
(* Properties of Vector (SpecVector)                                        *)
(***************************************************************************)
\* C23: every binary operation of Vector (dot, plus, minus) fails with an
\* error when its argument is no Vector, and returns no value.
C23_OperandChecked ==
  (vecCall.op \in {"dot", "plus", "minus"} /\ ~IsVector(vecCall.other)) =>
    vecCall.thrown # "none"

\* a vector of length 1, up to the rounding of the fixed point
C24_IsUnit(v) == magnitude(v) # NaN /\ magnitude(v) \in (Milli - 2)..(Milli + 2)

\* C24: normalized() never fails; the zero vector is returned unchanged, and
\* it is the only vector whose result is no unit vector.
C24_NormalizedUnit ==
  vecCall.op = "normalized" =>
    /\ vecCall.thrown = "none"
    /\ vecCall.this = Vector(0, 0) => vecCall.value = vecCall.this
    /\ vecCall.this # Vector(0, 0) => C24_IsUnit(vecCall.value)


\* C27: when render is called in the driver's order, after a step of the box
\* that returned, every firework in the box is not dead and every particle
\* drawn has a lifespan > 0.
C27_RenderSeesLive ==
  ~boxEv.thrown =>
    \A i \in 1..Len(box.fireworks) :
      /\ ~FireworkDead(box.fireworks[i])
      /\ \A j \in 1..Len(box.fireworks[i].particles) :
           box.fireworks[i].particles[j].lifespan > 0

\* a step returned and left a firework whose fragments have all been retired
\* while its own countdown still runs
C27_Witness ==
  /\ ~boxEv.thrown /\ boxEv.stepped # {}
  /\ box.shape = "twinkle"
  /\ \E i \in 1..Len(box.fireworks) :
       /\ box.fireworks[i].exploded
       /\ Len(box.fireworks[i].particles) = 0
       /\ box.fireworks[i].lifespan > 0

C26_Started == { c \in CanvasEls : displays.dataset[c] # 0 }

\* C26: after stop(canvas) fireworksById holds no entry for the display that
\* start(canvas) created, and the number of registered displays equals the
\* number of canvases currently started.
C26_RegistryIsStarted ==
  /\ (displays.last.op = "stop" /\ displays.last.id # 0) =>
       displays.last.id \notin displays.registry
  /\ Cardinality(displays.registry) = Cardinality(C26_Started)


(***************************************************************************)
(* Properties of the registry of events.js (SpecEvents)                     *)
(***************************************************************************)
C28_Registered == \E i \in 1..Len(events.before.lists[events.last.eventType]) :
                    events.before.lists[events.last.eventType][i] = events.last.callback

\* C28: removeEventListener(eventType, callback) with a function callback
\* does not throw; it returns true and removes one registration when the
\* callback is registered for that type, and returns false and changes
\* nothing when it is not.
C28_RemoveReturns ==
  (events.last.op = "remove" /\ events.last.callback.type = "function") =>
    /\ events.last.thrown = "none"
    /\ C28_Registered =>
         /\ events.last.value = TRUE
         /\ Len(events.l.lists[events.last.eventType])
              = Len(events.before.lists[events.last.eventType]) - 1
    /\ ~C28_Registered =>
         /\ events.last.value = FALSE
         /\ events.l = events.before

\* C29: dispatchEvent(event) returns the number of callbacks invoked, which
\* is the number registered for event.type when the dispatch began (0 when
\* none is), each invoked once in registration order, whatever the
\* callbacks add or remove meanwhile.
C29_DispatchInvokesAll ==
  events.last.op = "dispatch" =>
    /\ events.last.thrown = "none"
    /\ events.last.invoked = events.before.lists[events.last.eventType]
    /\ events.last.value = Len(events.before.lists[events.last.eventType])


(***************************************************************************)
(* Properties of the log handlers (SpecLog)                                 *)
(***************************************************************************)
\* C30: a log event that passes the level filter is sent to every
\* registered handler exactly once, or to the default handler exactly when
\* no handler is registered; a handler that throws neither stops the
\* remaining handlers nor makes the logging call throw.
C30_EveryHandlerOnce ==
  (logs.last.op = "log" /\ logs.last.passed) =>
    /\ Len(logs.before) = 0 =>
         /\ logs.last.delivered = <<>>
         /\ logs.last.defaults = <<LogEvent(logs.id, logs.last.logger, logs.last.level)>>
    /\ Len(logs.before) > 0 =>
         /\ logs.last.delivered = logs.before
         /\ \A i \in 1..Len(logs.last.defaults) : logs.last.defaults[i].type # "object"
         /\ logs.last.thrown = "none"


(***************************************************************************)
(* Properties of the snowflakes (SpecSnow)                                  *)
(***************************************************************************)
\* C31: after any sequence of start, stop, reset and animation steps the
\* number of live snowflakes never exceeds the configured count, and an
\* animation step creates at most one snowflake.
C31_AtMostCount ==
  /\ Len(snow.flakes) <= snow.count
  /\ snow.made <= 1

\* the configured count of 2 is filled and a step has just run
C31_Witness ==
  /\ snow.op = "step" /\ snow.count = 2 /\ Len(snow.flakes) = 2


\* the heights of the flakes that one step leaves on the screen, in order
C32_Fallen(flakes) ==
  SelectSeq([i \in 1..Len(flakes) |-> flakes[i].yPos + flakes[i].fallSpeed],
            LAMBDA y : y <= SnowScreenHeight)

\* C32: after stop(), until start() is called again, no animation step
\* creates a snowflake, each snowflake is removed in the step where it falls
\* below the screen height instead of being recycled, and with continued
\* steps the snowflakes eventually are all gone; start() resumes creation.
C32_FadesOut ==
  /\ [][(snow'.op = "step" /\ ~snow.createSnowFlakes) =>
          /\ snow'.made = 0
          /\ [i \in 1..Len(snow'.flakes) |-> snow'.flakes[i].yPos] = C32_Fallen(snow.flakes)]_vars
  /\ (~snow.createSnowFlakes) ~> (Len(snow.flakes) = 0 \/ snow.createSnowFlakes)
  /\ [][(snow'.op = "step" /\ snow.createSnowFlakes /\ Len(snow.flakes) < snow.count) =>
          snow'.made = 1]_vars

\* a step after stop has removed a flake and moved another on
C32_Witness ==
  /\ snow.op = "step" /\ ~snow.createSnowFlakes
  /\ snow.gone >= 1 /\ Len(snow.flakes) >= 1


(***************************************************************************)
(* Properties of the reorderable container (SpecReorder)                    *)
(***************************************************************************)
\* C33: dropCallBack is invoked exactly when a dragged element is dropped,
\* once per drop and with the dropped element; it is not invoked when the
\* drag is cancelled and never with a null element.
C33_CalledOnDrop ==
  /\ (drag.ended = "drop" /\ drag.dragged # NoElement) =>
       (Len(drag.calls) = 1 /\ drag.calls[1].element = drag.dragged)
  /\ drag.ended # "drop" => drag.calls = <<>>
  /\ \A i \in 1..Len(drag.calls) : drag.calls[i].element # NoElement

\* C34: a cancelled drag restores the order the children had when the drag
\* started, and the children are always a permutation of the same elements.
C34_CancelRestores ==
  /\ Len(drag.children) = Len(ReorderChildren)
  /\ {drag.children[i] : i \in 1..Len(drag.children)} = ReorderItems
  /\ (drag.ended = "cancel" /\ drag.dragged # NoElement /\ drag.calls # <<>>) =>
       drag.children = drag.origin

\* a drag that had changed the order has been cancelled
C34_Witness ==
  /\ drag.ended = "cancel" /\ drag.dragged # NoElement /\ drag.calls # <<>>
  /\ drag.before # drag.origin
  /\ drag.children = drag.origin

\* C39: after any number of makeReordable calls on the same container each
\* element has at most one active listener per event type, so one drag
\* event triggers one handler run and one dropCallBack call.
C39_OneListener ==
  /\ \A t \in ReorderTargets, ty \in ReorderEventTypes : Len(drag.dom[t][ty]) <= 1
  /\ Len(drag.calls) <= 1


(***************************************************************************)
(* The two countdowns of an exploded firework (SpecBox)                     *)
(***************************************************************************)

\* the countdown of an exploded firework at which its fragments are retired
C36_Burnout == FireworkLifespan - ParticleLifespan

\* f, exploded, counts its own steps since the explosion step in its
\* countdown; its fragments count the same steps
C36_InStep(f) ==
  /\ f.lifespan >= 1 /\ f.lifespan <= FireworkLifespan
  /\ f.lifespan <= C36_Burnout => f.particles = <<>>
  /\ \A j \in 1..Len(f.particles) :
       f.particles[j].lifespan = f.lifespan - C36_Burnout

\* C36: the fragments of a firework are all retired in one step, the 100th
\* step of the firework after its explosion step, so an exploded firework
\* holds all its fragments or none; the firework leaves the box in its 200th
\* step after the explosion step, and in between it holds no particle and
\* is still counted by count.
C36_PrunedTogether ==
  /\ [](\A i \in 1..Len(box.fireworks) :
          box.fireworks[i].exploded => C36_InStep(box.fireworks[i]))
  /\ [](count(box) = Len(box.fireworks))
  /\ [][\A i \in 1..Len(box.fireworks) :
          (box.fireworks[i].exploded /\ InBox(box', box.fireworks[i].id)) =>
            LET after == FireworkOf(box', box.fireworks[i].id)
            IN  \/ Len(after.particles) = Len(box.fireworks[i].particles)
                \/ /\ after.lifespan = C36_Burnout
                   /\ after.particles = <<>>]_vars
  /\ [][\A i \in 1..Len(box.fireworks) :
          (box.fireworks[i].exploded /\ box.fireworks[i].id \in boxEv'.stepped
             /\ frame' # frame) =>
            (InBox(box', box.fireworks[i].id) <=> box.fireworks[i].lifespan > 1)]_vars

\* a step has just retired the fragments of a firework, which stays in the
\* box with a hundred steps to go and is counted
C36_Witness ==
  /\ \E i \in 1..Len(box.fireworks) :
       /\ box.fireworks[i].exploded
       /\ box.fireworks[i].lifespan = C36_Burnout
       /\ box.fireworks[i].particles = <<>>
       /\ box.fireworks[i].id \in boxEv.stepped
  /\ count(box) >= 1


(***************************************************************************)
(* The target of startNewFirework (SpecLaunch)                              *)
(***************************************************************************)

\* the ascending particle of f as the next call of step leaves it
C37_Ascended(f, gravity) == ParticleStep(ParticleApplyForce(f.particles[1], gravity))

\* C37: the target given to startNewFirework only sets the launch velocity:
\* the firework of a box has no target, and it explodes in a step only when
\* the vertical velocity of its particle has reached 0 in that step, however
\* near the target the particle is.
C37_ApexOnly ==
  /\ [](\A i \in 1..Len(box.fireworks) : box.fireworks[i].target = Null)
  /\ [][\A i \in 1..Len(box.fireworks) :
          (~box.fireworks[i].exploded /\ InBox(box', box.fireworks[i].id)
             /\ FireworkOf(box', box.fireworks[i].id).exploded) =>
            NGe(C37_Ascended(box.fireworks[i], box.gravity).vel.y, 0)]_vars

\* a firework started with a target has come within reach of it in a step,
\* still rising, and has not exploded
C37_Witness ==
  /\ ignited = 1 /\ ticks >= 1 /\ ~launch.drawn
  /\ ~box.fireworks[1].exploded
  /\ NLt(box.fireworks[1].particles[1].vel.y, 0)
  /\ launch.xTarget - box.fireworks[1].particles[1].pos.x \in -TargetReach * Milli..TargetReach * Milli
  /\ launch.yTarget - box.fireworks[1].particles[1].pos.y \in -TargetReach * Milli..TargetReach * Milli
  /\ NLt(distance(Vector(launch.xTarget, launch.yTarget),
                  box.fireworks[1].particles[1].pos), TargetReach * Milli)


(***************************************************************************)
(* Vectors are never changed in place (SpecHeap)                            *)
(***************************************************************************)

\* C38: no method of Vector (dot, plus, minus, multiply, divide,
\* withMagnitude, withAngle, normalized, equal, clone) changes x or y of its
\* receiver or of its argument, nor of any other Vector; so the fragments of
\* one explosion, constructed with one origin object, move independently:
\* applyForce or step of one particle leaves the acceleration, velocity,
\* position and trail of every other particle as they were.
C38_NoSharedChange ==
  [][/\ \A ref \in 1..Len(heap.objs) :
          ref <= Len(heap'.objs) /\ heap'.objs[ref] = heap.objs[ref]
     /\ heap'.last.op \in VectorMethods => heap'.parts = heap.parts
     /\ heap'.last.op \in {"step", "applyForce"} =>
          \A j \in 1..Len(heap.parts) :
            j # heap'.last.this =>
              ParticleAt(heap'.objs, heap'.parts[j]) = ParticleAt(heap.objs, heap.parts[j])]_vars

\* both fragments of an explosion away from its centre have been stepped and
\* are in different places, the centre is where it was, and plus has just
\* been called on the position of the first
C38_Witness ==
  /\ heap.last.op = "plus"
  /\ heap.parts[1].lifespan < ParticleLifespan
  /\ heap.parts[2].lifespan < ParticleLifespan
  /\ heap.objs[heap.parts[1].pos] # heap.objs[heap.parts[2].pos]
  /\ heap.objs[heap.parts[1].pos] # heap.objs[heap.origin]
  /\ heap.objs[heap.origin] = Vector(20 * Milli, 10 * Milli)

====
